---- MODULE Spec2Model ----
(***************************************************************************)
(* kazt-api modelled as state machines over one state.                     *)
(*                                                                         *)
(* Spec, ValidateSpec, SimulateSpec, CycleSpec, ExportSpec, StoreSpec:     *)
(*   the rule graph validation and transaction simulation engine           *)
(*   (src/src/services/rule_service.py); a caller holds a block list, the  *)
(*   service process answers validate, simulate, export and save calls.    *)
(* RngSpec: simulate calls drawing from the process's random generator.    *)
(* AuthSpec: API keys, tiers and the daily limit                           *)
(*   (src/src/services/auth_service.py) behind the routes of               *)
(*   src/src/routes/rules.py and src/src/routes/deploy.py.                 *)
(* LockSpec: concurrent check_ip_lock calls on the cache.                  *)
(* RetrySpec: the retry loop of APIClient.request                          *)
(*   (src/src/services/api_client.py).                                     *)
(***************************************************************************)
EXTENDS Integers, Sequences, FiniteSets, TLC

VARIABLES
    blocks,        \* the caller's block list (request.blocks)
    hashseed,      \* the interpreter's string-hash seed: fixes set iteration order
    validation,    \* what validate() returned in the call being served, else <<>>
    sample_txs,    \* the sample the simulate call being served generated, else <<>>
    report,        \* the SimulationReport the simulate call being served returns
    requested,     \* request.sample_txs of the simulate call being served, else <<>>
    exported,      \* what the export_rules call being served returns, else <<>>
    raised,        \* the exception that left the call being served, else <<>>
    \* RuleService
    saved_rules,   \* rule_service.saved_rules: rule id -> saved rule set
    \* the random module's generator, shared by every simulate call
    rng0,          \* the generator's state when the process started
    rng,           \* the generator's state now
    drawn,         \* call -> the numbers a simulate call drew, oldest first
    \* AuthService, the database, the cache and the clock
    api_keys,      \* auth_service.api_keys: API key -> tier (in-memory table)
    usage,         \* auth_service.usage: usage key -> [date, count]
    db_users,      \* table users: API key -> tier
    session_cache, \* cache entries kazt:session:<key>: API key -> tier
    today,         \* time.strftime("%Y-%m-%d")
    served,        \* caller -> simulate calls answered 200 by this process today
    response,      \* the answer of the request being served, else <<>>
    \* check_ip_lock
    iplock,        \* cache entry kazt:iplock:<key>: the locked IP, else <<>>
    ipcalls,       \* call -> frame of a check_ip_lock call for that key
    \* APIClient.request
    max_retries,   \* self.max_retries
    attempts,      \* what each attempt made so far ended with, oldest first
    last_exception,\* the local last_exception
    last_response, \* the local response: status of the last response received
    outcome        \* how request() ended, <<>> while it runs

engineVars ==
    <<blocks, hashseed, validation, sample_txs, report, requested, exported, raised>>
storeVars == <<saved_rules>>
rngVars == <<rng0, rng, drawn>>
authVars == <<api_keys, usage, db_users, session_cache, today, served, response>>
lockVars == <<iplock, ipcalls>>
retryVars == <<max_retries, attempts, last_exception, last_response, outcome>>

vars == <<engineVars, storeVars, rngVars, authVars, lockVars, retryVars>>

----------------------------------------------------------------------------
(* Bounds of the model *)

MaxRetries == 3    \* largest max_retries an APIClient is built with
MaxServed == 4     \* simulate calls a caller is followed through in one day
MaxDay == 2        \* days the clock is followed through
MaxConn == 1       \* longest enumerated connection list of a block
MaxTxs == 2        \* largest sample_txs drawn
NumSeeds == 2       \* number of distinct hash seeds a process may start with
RecursionLimit == 5 \* has_cycle frames the interpreter's stack holds (CPython:
                    \* about 1000), scaled to the chains the model enumerates

(* Program constants *)

DefaultIntervalMs == 100
DefaultMaxBatch == 50
DefaultMinBatch == 1
LowIntervalMs == 50

----------------------------------------------------------------------------
(* Values *)

None == <<>>                 \* Python None / an unset Optional field
Some(v) == <<v>>

NoParams == [k \in {} |-> 0] \* the empty params dict

\* Every string the model uses as a block id or an address, in a fixed
\* reference order (strings have no order of their own in TLA+).
StrUniverse == <<"a", "b", "c", "d", "e", "f", "zz", "yy", "s1", "s2", "g", "h">>

Rank(s) == CHOOSE i \in 1..Len(StrUniverse) : StrUniverse[i] = s

\* dict.get(key, default)
Get(params, key, default) == IF key \in DOMAIN params THEN params[key] ELSE default

\* x in list
InList(x, list) == \E i \in 1..Len(list) : list[i] = x

\* set(list)
ToSet(list) == {list[i] : i \in 1..Len(list)}

RECURSIVE SortedSeq(_)
SortedSeq(S) ==
    IF S = {} THEN <<>>
    ELSE LET m == CHOOSE x \in S : \A y \in S : Rank(x) <= Rank(y)
         IN <<m>> \o SortedSeq(S \ {m})

RemoveAt(s, i) == SubSeq(s, 1, i - 1) \o SubSeq(s, i + 1, Len(s))

RECURSIVE Permute(_, _)
Permute(s, k) ==
    IF Len(s) = 0 THEN <<>>
    ELSE LET i == (k % Len(s)) + 1
         IN <<s[i]>> \o Permute(RemoveAt(s, i), k \div Len(s))

\* Iteration order of a Python set of strings in a process started with hash
\* seed h: some permutation of the set, fixed for the life of the process.
SetOrder(S, h) == Permute(SortedSeq(S), h)

----------------------------------------------------------------------------
(* Messages.  A conflict, warning or reason string is modelled by the      *)
(* template it is formatted from and the values formatted into it, in the  *)
(* order they appear in the text.                                          *)

Msg(kind, block, other, addrs, n1, n2) ==
    [kind |-> kind, block |-> block, other |-> other, addrs |-> addrs,
     n1 |-> n1, n2 |-> n2]

NoBlocksMsg == Msg("No blocks provided", "", "", <<>>, 0, 0)
NonExistentMsg(src, conn_id) ==
    Msg("Block connects to non-existent block", src, conn_id, <<>>, 0, 0)
CycleMsg == Msg("Circular dependency detected in rule chain", "", "", <<>>, 0, 0)
MultipleMsg(btype, count) == Msg("Multiple blocks", "", btype, <<>>, count, 0)
ProRataClobMsg ==
    Msg("Pro-rata ordering is incompatible with CLOB matching engine", "", "", <<>>, 0, 0)
OverlapMsg(id, overlap) ==
    Msg("addresses appear in both blacklist and whitelist", id, "", overlap, 0, 0)
BothListsMsg(id) ==
    Msg("using both blacklist and whitelist. Whitelist takes priority.", id, "", <<>>, 0, 0)
MinMaxMsg(id, min_batch, max_batch) ==
    Msg("min_batch > max_batch", id, "", <<>>, min_batch, max_batch)
LowIntervalMsg(id, interval) ==
    Msg("interval is very low. May cause high load.", id, "", <<>>, interval, 0)

----------------------------------------------------------------------------
(* RuleService.validate *)

\* block_ids = {b.id for b in blocks}
BlockIds(bs) == {bs[i].id : i \in 1..Len(bs)}

\* graph = {b.id: b.connections for b in blocks}: a later block with the same
\* id replaces an earlier one.
Graph(bs) ==
    [id \in BlockIds(bs) |->
        bs[CHOOSE i \in 1..Len(bs) :
              /\ bs[i].id = id
              /\ \A j \in 1..Len(bs) : bs[j].id = id => j <= i].connections]

\* ConnConflicts reporting a missing target once per block, however often the
\* block lists it
RECURSIVE ConnConflicts_OncePerTarget(_, _, _)
ConnConflicts_OncePerTarget(block, block_ids, j) ==
    IF j > Len(block.connections) THEN <<>>
    ELSE (IF /\ block.connections[j] \notin block_ids
             /\ \A k \in 1..(j - 1) : block.connections[k] # block.connections[j]
          THEN <<NonExistentMsg(block.id, block.connections[j])>>
          ELSE <<>>) \o ConnConflicts_OncePerTarget(block, block_ids, j + 1)

\* for conn_id in block.connections: if conn_id not in block_ids: append
RECURSIVE ConnConflicts(_, _, _)
ConnConflicts(block, block_ids, j) ==
    IF j > Len(block.connections) THEN <<>>
    ELSE (IF block.connections[j] \notin block_ids
          THEN <<NonExistentMsg(block.id, block.connections[j])>>
          ELSE <<>>) \o ConnConflicts(block, block_ids, j + 1)

\* for block in blocks: (the loop above)
RECURSIVE RefConflicts(_, _)
RefConflicts(bs, i) ==
    IF i > Len(bs) THEN <<>>
    ELSE ConnConflicts(bs[i], BlockIds(bs), 1) \o RefConflicts(bs, i + 1)

\* has_cycle(node), with the sets it mutates passed through st; found is its
\* return value.  A return of True leaves rec_stack as it is.
RECURSIVE has_cycle(_, _, _), VisitNeighbors(_, _, _, _)
has_cycle(graph, node, st) ==
    LET entered == [visited |-> st.visited \cup {node},
                    rec_stack |-> st.rec_stack \cup {node},
                    found |-> FALSE]
        neighbors == IF node \in DOMAIN graph THEN graph[node] ELSE <<>>
        r == VisitNeighbors(graph, neighbors, 1, entered)
    IN IF r.found THEN r ELSE [r EXCEPT !.rec_stack = @ \ {node}]

\* VisitNeighbors taking every neighbor seen before for a cycle, on the
\* recursion stack or not
RECURSIVE VisitNeighbors_VisitedIsCycle(_, _, _, _)
VisitNeighbors_VisitedIsCycle(graph, neighbors, i, st) ==
    IF i > Len(neighbors) THEN st
    ELSE LET neighbor == neighbors[i] IN
         IF neighbor \notin st.visited
         THEN LET r == has_cycle(graph, neighbor, st)
              IN IF r.found THEN r
                 ELSE VisitNeighbors_VisitedIsCycle(graph, neighbors, i + 1, r)
         ELSE [st EXCEPT !.found = TRUE]

VisitNeighbors(graph, neighbors, i, st) ==
    IF i > Len(neighbors) THEN st
    ELSE LET neighbor == neighbors[i] IN
         IF neighbor \notin st.visited
         THEN LET r == has_cycle(graph, neighbor, st)
              IN IF r.found THEN r ELSE VisitNeighbors(graph, neighbors, i + 1, r)
         ELSE IF neighbor \in st.rec_stack
         THEN [st EXCEPT !.found = TRUE]
         ELSE VisitNeighbors(graph, neighbors, i + 1, st)

\* ScanFrom searching from the first start node only
ScanFrom_FirstOnly(graph, order, i, sc) ==
    IF i > Len(order) THEN sc
    ELSE LET r == has_cycle(graph, order[i], sc.dfs)
         IN IF r.found
            THEN [dfs |-> r, cycle_detected |-> TRUE,
                  conflicts |-> Append(sc.conflicts, CycleMsg)]
            ELSE [sc EXCEPT !.dfs = r]

\* ScanFrom without the break after a cycle was found
RECURSIVE ScanFrom_NoBreak(_, _, _, _)
ScanFrom_NoBreak(graph, order, i, sc) ==
    IF i > Len(order) THEN sc
    ELSE IF order[i] \in sc.dfs.visited THEN ScanFrom_NoBreak(graph, order, i + 1, sc)
    ELSE LET r == has_cycle(graph, order[i], sc.dfs)
         IN IF r.found
            THEN ScanFrom_NoBreak(graph, order, i + 1,
                     [dfs |-> [r EXCEPT !.found = FALSE], cycle_detected |-> TRUE,
                      conflicts |-> Append(sc.conflicts, CycleMsg)])
            ELSE ScanFrom_NoBreak(graph, order, i + 1, [sc EXCEPT !.dfs = r])

\* for block_id in block_ids: if block_id not in visited: if has_cycle(...):
\* cycle_detected = True; conflicts.append(...); break -- from the i-th start
\* node on.  sc carries the sets of the search (dfs), cycle_detected and the
\* conflicts this loop appended.
RECURSIVE ScanFrom(_, _, _, _)
ScanFrom(graph, order, i, sc) ==
    IF i > Len(order) THEN sc
    ELSE IF order[i] \in sc.dfs.visited THEN ScanFrom(graph, order, i + 1, sc)
    ELSE LET r == has_cycle(graph, order[i], sc.dfs)
         IN IF r.found
            THEN [dfs |-> r, cycle_detected |-> TRUE,
                  conflicts |-> Append(sc.conflicts, CycleMsg)]
            ELSE ScanFrom(graph, order, i + 1, [sc EXCEPT !.dfs = r])

\* The cycle search, the start nodes taken in the given order
CycleScan(bs, order) ==
    ScanFrom(Graph(bs), order, 1,
             [dfs |-> [visited |-> {}, rec_stack |-> {}, found |-> FALSE],
              cycle_detected |-> FALSE, conflicts |-> <<>>])

\* The deepest nesting of has_cycle frames a call has_cycle(node) reaches, the
\* frame of the caller being at depth |rec_stack|: every frame on the stack
\* has its node in rec_stack.
RECURSIVE FrameDepth(_, _, _), NeighborsDepth(_, _, _, _)
FrameDepth(graph, node, st) ==
    LET entered == [visited |-> st.visited \cup {node},
                    rec_stack |-> st.rec_stack \cup {node},
                    found |-> FALSE]
        neighbors == IF node \in DOMAIN graph THEN graph[node] ELSE <<>>
        below == NeighborsDepth(graph, neighbors, 1, entered)
        here == Cardinality(entered.rec_stack)
    IN IF below > here THEN below ELSE here

NeighborsDepth(graph, neighbors, i, st) ==
    IF i > Len(neighbors) THEN 0
    ELSE LET neighbor == neighbors[i] IN
         IF neighbor \notin st.visited
         THEN LET r == has_cycle(graph, neighbor, st)
                  d == FrameDepth(graph, neighbor, st)
                  rest == NeighborsDepth(graph, neighbors, i + 1, r)
              IN IF r.found \/ d > rest THEN d ELSE rest
         ELSE IF neighbor \in st.rec_stack THEN 0
         ELSE NeighborsDepth(graph, neighbors, i + 1, st)

\* The deepest nesting of has_cycle frames the scan reaches from the i-th
\* start node on
RECURSIVE ScanDepth(_, _, _, _)
ScanDepth(graph, order, i, dfs) ==
    IF i > Len(order) THEN 0
    ELSE IF order[i] \in dfs.visited THEN ScanDepth(graph, order, i + 1, dfs)
    ELSE LET r == has_cycle(graph, order[i], dfs)
             d == FrameDepth(graph, order[i], dfs)
             rest == ScanDepth(graph, order, i + 1, r)
         IN IF r.found \/ d > rest THEN d ELSE rest

\* has_cycle calls itself once per block along a path of connections; the
\* interpreter raises RecursionError in validate when the nesting passes its
\* limit.
RecursionError == "RecursionError"
ValidateRaises(bs, h) ==
    /\ Len(bs) > 0
    /\ ScanDepth(Graph(bs), SetOrder(BlockIds(bs), h), 1,
                 [visited |-> {}, rec_stack |-> {}, found |-> FALSE]) > RecursionLimit

\* Counter(block_types).items(): one entry per type, in order of first
\* occurrence; a warning for each type that occurs more than once.
TypeCount(bs, t) == Cardinality({i \in 1..Len(bs) : bs[i].type = t})

RECURSIVE TypeWarnings(_, _)
TypeWarnings(bs, i) ==
    IF i > Len(bs) THEN <<>>
    ELSE (IF /\ \A j \in 1..(i - 1) : bs[j].type # bs[i].type
             /\ TypeCount(bs, bs[i].type) > 1
          THEN <<MultipleMsg(bs[i].type, TypeCount(bs, bs[i].type))>>
          ELSE <<>>) \o TypeWarnings(bs, i + 1)

\* [b for b in blocks if b.type == t]
OfType(bs, t) == SelectSeq(bs, LAMBDA b : b.type = t)

\* MatchingConflicts leaving the inner loop at the first incompatible block
RECURSIVE MatchingConflicts_FirstOnly(_, _, _)
MatchingConflicts_FirstOnly(method, matching_blocks, j) ==
    IF j > Len(matching_blocks) THEN <<>>
    ELSE IF /\ method = "pro_rata"
            /\ Get(matching_blocks[j].params, "engine", "clob") = "clob"
    THEN <<ProRataClobMsg>>
    ELSE MatchingConflicts_FirstOnly(method, matching_blocks, j + 1)

\* for mb in matching_blocks: (inner loop of the ordering x matching check)
RECURSIVE MatchingConflicts(_, _, _)
MatchingConflicts(method, matching_blocks, j) ==
    IF j > Len(matching_blocks) THEN <<>>
    ELSE (IF /\ method = "pro_rata"
             /\ Get(matching_blocks[j].params, "engine", "clob") = "clob"
          THEN <<ProRataClobMsg>>
          ELSE <<>>) \o MatchingConflicts(method, matching_blocks, j + 1)

\* for ob in ordering_blocks:
RECURSIVE OrderingConflicts(_, _, _)
OrderingConflicts(ordering_blocks, matching_blocks, i) ==
    IF i > Len(ordering_blocks) THEN <<>>
    ELSE MatchingConflicts(Get(ordering_blocks[i].params, "method", "FIFO"),
                           matching_blocks, 1)
         \o OrderingConflicts(ordering_blocks, matching_blocks, i + 1)

\* FilterCheck warning about the priority whenever both lists are in use
FilterCheck_AlwaysWarn(block, h) ==
    LET bl == Get(block.params, "blacklist", <<>>)
        wl == Get(block.params, "whitelist", <<>>)
        overlap == ToSet(bl) \cap ToSet(wl)
    IN IF block.type = "filter" /\ Len(bl) > 0 /\ Len(wl) > 0
       THEN <<(IF overlap # {}
               THEN <<OverlapMsg(block.id, SetOrder(overlap, h))>> ELSE <<>>),
              <<BothListsMsg(block.id)>>>>
       ELSE <<(<<>>), <<>>>>

\* The Filter check of one block: <<conflicts, warnings>> it appends.  The
\* overlap is a set formatted into the text, so its addresses appear in the
\* set's iteration order.
FilterCheck(block, h) ==
    LET bl == Get(block.params, "blacklist", <<>>)
        wl == Get(block.params, "whitelist", <<>>)
        overlap == ToSet(bl) \cap ToSet(wl)
    IN IF block.type = "filter" /\ Len(bl) > 0 /\ Len(wl) > 0
       THEN IF overlap # {}
            THEN <<(<<OverlapMsg(block.id, SetOrder(overlap, h))>>), <<>>>>
            ELSE <<(<<>>), <<BothListsMsg(block.id)>>>>
       ELSE <<(<<>>), <<>>>>

\* BatchingCheck rejecting min_batch = max_batch as well
BatchingCheck_Ge(block) ==
    LET interval == Get(block.params, "interval_ms", DefaultIntervalMs)
        max_batch == Get(block.params, "max_batch", DefaultMaxBatch)
        min_batch == Get(block.params, "min_batch", DefaultMinBatch)
    IN IF block.type = "batching"
       THEN <<(IF min_batch >= max_batch
               THEN <<MinMaxMsg(block.id, min_batch, max_batch)>> ELSE <<>>),
              (IF interval < LowIntervalMs
               THEN <<LowIntervalMsg(block.id, interval)>> ELSE <<>>)>>
       ELSE <<(<<>>), <<>>>>

\* The Batching check of one block: <<conflicts, warnings>> it appends.
BatchingCheck(block) ==
    LET interval == Get(block.params, "interval_ms", DefaultIntervalMs)
        max_batch == Get(block.params, "max_batch", DefaultMaxBatch)
        min_batch == Get(block.params, "min_batch", DefaultMinBatch)
    IN IF block.type = "batching"
       THEN <<(IF min_batch > max_batch
               THEN <<MinMaxMsg(block.id, min_batch, max_batch)>> ELSE <<>>),
              (IF interval < LowIntervalMs
               THEN <<LowIntervalMsg(block.id, interval)>> ELSE <<>>)>>
       ELSE <<(<<>>), <<>>>>

\* for block in blocks: (the Filter loop, then the Batching loop); k = 1
\* collects the conflicts, k = 2 the warnings
RECURSIVE FilterLoop(_, _, _, _)
FilterLoop(bs, h, k, i) ==
    IF i > Len(bs) THEN <<>>
    ELSE FilterCheck(bs[i], h)[k] \o FilterLoop(bs, h, k, i + 1)

RECURSIVE BatchingLoop(_, _, _)
BatchingLoop(bs, k, i) ==
    IF i > Len(bs) THEN <<>>
    ELSE BatchingCheck(bs[i])[k] \o BatchingLoop(bs, k, i + 1)

\* IsValid with warnings counted against the list
IsValid_NoWarnings(conflicts, warnings, cycle_detected) ==
    Len(conflicts) = 0 /\ Len(warnings) = 0 /\ ~cycle_detected

\* valid = len(conflicts) == 0 and not cycle_detected
IsValid(conflicts, warnings, cycle_detected) ==
    Len(conflicts) = 0 /\ ~cycle_detected

\* validate(blocks) past the empty-list check, in a process with hash seed h
ValidateBlocks(bs, h) ==
    LET scan == CycleScan(bs, SetOrder(BlockIds(bs), h))
        conflicts ==
            RefConflicts(bs, 1)
            \o scan.conflicts
            \o OrderingConflicts(OfType(bs, "ordering"), OfType(bs, "matching"), 1)
            \o FilterLoop(bs, h, 1, 1)
            \o BatchingLoop(bs, 1, 1)
        warnings ==
            TypeWarnings(bs, 1) \o FilterLoop(bs, h, 2, 1) \o BatchingLoop(bs, 2, 1)
    IN [valid |-> IsValid(conflicts, warnings, scan.cycle_detected),
        conflicts |-> conflicts, warnings |-> warnings,
        cycle_detected |-> scan.cycle_detected]

\* validate without the empty-list check
validate_NoEmptyCheck(bs, h) == ValidateBlocks(bs, h)

\* validate(blocks) in a process with hash seed h
validate(bs, h) ==
    IF Len(bs) = 0
    THEN [valid |-> FALSE, conflicts |-> <<NoBlocksMsg>>, warnings |-> <<>>,
          cycle_detected |-> FALSE]
    ELSE ValidateBlocks(bs, h)

----------------------------------------------------------------------------
(* RuleService.simulate *)

\* Reasons of a filtered result
NotInWhitelist == Msg("Not in whitelist", "", "", <<>>, 0, 0)
InBlacklist == Msg("In blacklist", "", "", <<>>, 0, 0)
ExceedsMax(amount, max_size) == Msg("Amount exceeds max_size", "", "", <<>>, amount, max_size)
BelowMin(amount, min_size) == Msg("Amount below min_size", "", "", <<>>, amount, min_size)

\* `if max_size and ...`: None (here: no such key) and 0 are both false
Truthy(params, key) == key \in DOMAIN params /\ params[key] # 0

\* FilterBlockVerdict with the size conditions checked before the lists
FilterBlockVerdict_SizeFirst(block, tx) ==
    LET bl == Get(block.params, "blacklist", <<>>)
        wl == Get(block.params, "whitelist", <<>>)
    IN IF Truthy(block.params, "max_size") /\ tx.amount > block.params["max_size"]
       THEN Some(ExceedsMax(tx.amount, block.params["max_size"]))
       ELSE IF Truthy(block.params, "min_size") /\ tx.amount < block.params["min_size"]
       THEN Some(BelowMin(tx.amount, block.params["min_size"]))
       ELSE IF Len(wl) > 0 /\ ~InList(tx.sender, wl) THEN Some(NotInWhitelist)
       ELSE IF Len(bl) > 0 /\ InList(tx.sender, bl) THEN Some(InBlacklist)
       ELSE None

\* The four conditions of one Filter block on tx: the reason of the first one
\* that matches, None if none does.
FilterBlockVerdict(block, tx) ==
    LET bl == Get(block.params, "blacklist", <<>>)
        wl == Get(block.params, "whitelist", <<>>)
    IN IF Len(wl) > 0 /\ ~InList(tx.sender, wl) THEN Some(NotInWhitelist)
       ELSE IF Len(bl) > 0 /\ InList(tx.sender, bl) THEN Some(InBlacklist)
       ELSE IF Truthy(block.params, "max_size") /\ tx.amount > block.params["max_size"]
       THEN Some(ExceedsMax(tx.amount, block.params["max_size"]))
       ELSE IF Truthy(block.params, "min_size") /\ tx.amount < block.params["min_size"]
       THEN Some(BelowMin(tx.amount, block.params["min_size"]))
       ELSE None

\* FilterStage without the break: every Filter block is visited and the last
\* one's verdict stands
FilterStage_LastWins(bs, tx, i) ==
    LET filters == {k \in i..Len(bs) : bs[k].type = "filter"}
        last == CHOOSE k \in filters : \A j \in filters : j <= k
    IN IF filters = {} THEN None ELSE FilterBlockVerdict(bs[last], tx)

\* for block in blocks: if block.type == FILTER: ... break -- the loop ends at
\* the first Filter block with a matching condition.  The reason, or None.
RECURSIVE FilterStage(_, _, _)
FilterStage(bs, tx, i) ==
    IF i > Len(bs) THEN None
    ELSE IF bs[i].type = "filter" /\ FilterBlockVerdict(bs[i], tx) # None
    THEN FilterBlockVerdict(bs[i], tx)
    ELSE FilterStage(bs, tx, i + 1)

\* list.index(x): the first position holding a value equal to x (0-based + 1)
IndexOf(list, x) ==
    CHOOSE i \in 1..Len(list) : list[i] = x /\ \A j \in 1..(i - 1) : list[j] # x

\* sorted(sample_txs, key=fee, reverse=True): stable, equal fees keep their order
FeeRank(txs, i) ==
    Cardinality({j \in 1..Len(txs) : txs[j].fee > txs[i].fee})
    + Cardinality({j \in 1..(i - 1) : txs[j].fee = txs[i].fee}) + 1

SortedByFee(txs) ==
    [r \in 1..Len(txs) |-> txs[CHOOSE i \in 1..Len(txs) : FeeRank(txs, i) = r]]

\* OrderingStage ranking a transaction by fee among the transactions that
\* pass the filters only
OrderingStage_AmongPassed(bs, txs, tx) ==
    LET ordering_blocks == OfType(bs, "ordering")
        method == Get(ordering_blocks[1].params, "method", "FIFO")
        passed == SelectSeq(txs, LAMBDA t : FilterStage(bs, t, 1) = None)
    IN IF Len(ordering_blocks) = 0 THEN None
       ELSE IF method = "FIFO" THEN Some(IndexOf(txs, tx))
       ELSE IF method = "price_time" THEN Some(IndexOf(SortedByFee(passed), tx))
       ELSE IF method = "pro_rata" THEN Some(IndexOf(txs, tx))
       ELSE None

\* OrderingStage reading the method of the last Ordering block
OrderingStage_LastBlock(bs, txs, tx) ==
    LET ordering_blocks == OfType(bs, "ordering")
        method == Get(ordering_blocks[Len(ordering_blocks)].params, "method", "FIFO")
    IN IF Len(ordering_blocks) = 0 THEN None
       ELSE IF method = "FIFO" THEN Some(IndexOf(txs, tx))
       ELSE IF method = "price_time" THEN Some(IndexOf(SortedByFee(txs), tx))
       ELSE IF method = "pro_rata" THEN Some(IndexOf(txs, tx))
       ELSE None

\* The Ordering stage: position of tx, by the first Ordering block
OrderingStage(bs, txs, tx) ==
    LET ordering_blocks == OfType(bs, "ordering")
        method == Get(ordering_blocks[1].params, "method", "FIFO")
    IN IF Len(ordering_blocks) = 0 THEN None
       ELSE IF method = "FIFO" THEN Some(IndexOf(txs, tx))
       ELSE IF method = "price_time" THEN Some(IndexOf(SortedByFee(txs), tx))
       ELSE IF method = "pro_rata" THEN Some(IndexOf(txs, tx))
       ELSE None

\* The Batching stage: batch_id of tx, by the first Batching block
BatchingStage(bs, txs, tx, position) ==
    LET batching_blocks == OfType(bs, "batching")
        max_batch == Get(batching_blocks[1].params, "max_batch", DefaultMaxBatch)
        current_pos == IF position # None /\ position[1] # 0
                       THEN position[1] ELSE IndexOf(txs, tx)
    IN IF Len(batching_blocks) = 0 THEN None
       ELSE Some(((current_pos - 1) \div max_batch) + 1)

\* TxResult with the ordering and batching stages applied to filtered
\* transactions too
TxResult_NoSkip(bs, txs, tx) ==
    LET reason == FilterStage(bs, tx, 1)
        position == OrderingStage(bs, txs, tx)
        batch_id == BatchingStage(bs, txs, tx, position)
    IN [tx_id |-> tx.tx_id,
        outcome |-> IF reason # None THEN "filtered"
                    ELSE IF batch_id # None THEN "batched" ELSE "included",
        position |-> position, batch_id |-> batch_id, reason |-> reason]

\* TxResult reporting a filtered transaction as "rejected"
TxResult_Rejecting(bs, txs, tx) ==
    LET reason == FilterStage(bs, tx, 1)
        position == OrderingStage(bs, txs, tx)
        batch_id == BatchingStage(bs, txs, tx, position)
    IN IF reason # None
       THEN [tx_id |-> tx.tx_id, outcome |-> "rejected", position |-> None,
             batch_id |-> None, reason |-> reason]
       ELSE [tx_id |-> tx.tx_id,
             outcome |-> IF batch_id # None THEN "batched" ELSE "included",
             position |-> position, batch_id |-> batch_id, reason |-> None]

\* One iteration of `for tx in sample_txs`: the SimulationTxResult of tx
TxResult(bs, txs, tx) ==
    LET reason == FilterStage(bs, tx, 1)
        position == OrderingStage(bs, txs, tx)
        batch_id == BatchingStage(bs, txs, tx, position)
    IN IF reason # None
       THEN [tx_id |-> tx.tx_id, outcome |-> "filtered", position |-> None,
             batch_id |-> None, reason |-> reason]
       ELSE [tx_id |-> tx.tx_id,
             outcome |-> IF batch_id # None THEN "batched" ELSE "included",
             position |-> position, batch_id |-> batch_id, reason |-> None]

\* for tx in sample_txs: ... results.append(...), from the i-th transaction on;
\* acc carries results and filtered_count
RECURSIVE TxLoop(_, _, _, _)
TxLoop(bs, txs, i, acc) ==
    IF i > Len(txs) THEN acc
    ELSE LET r == TxResult(bs, txs, txs[i])
         IN TxLoop(bs, txs, i + 1,
                   [results |-> Append(acc.results, r),
                    filtered_count |-> IF r.outcome = "filtered"
                                       THEN acc.filtered_count + 1
                                       ELSE acc.filtered_count])

\* RunPipeline counting every transaction as processed
RunPipeline_ProcessedAll(bs, txs) ==
    LET done == TxLoop(bs, txs, 1, [results |-> <<>>, filtered_count |-> 0])
    IN [results |-> done.results, total_txs |-> Len(txs),
        processed |-> Len(txs),
        filtered |-> done.filtered_count, conflicts |-> <<>>]

\* The report on a valid block list, given the generated sample
RunPipeline(bs, txs) ==
    LET done == TxLoop(bs, txs, 1, [results |-> <<>>, filtered_count |-> 0])
    IN [results |-> done.results, total_txs |-> Len(txs),
        processed |-> Len(txs) - done.filtered_count,
        filtered |-> done.filtered_count, conflicts |-> <<>>]

\* InvalidReport without the validator's conflicts
InvalidReport_NoConflicts(v, num_txs) ==
    [results |-> <<>>, total_txs |-> num_txs, processed |-> 0, filtered |-> 0,
     conflicts |-> <<>>]

\* The report on a block list the validator rejected
InvalidReport(v, num_txs) ==
    [results |-> <<>>, total_txs |-> num_txs, processed |-> 0, filtered |-> 0,
     conflicts |-> v.conflicts]

----------------------------------------------------------------------------
(* RuleService.export_rules *)

\* model_dump leaving the connections out of the dict
model_dump_NoConnections(b) ==
    [k \in {"id", "type", "params", "position"} |->
        CASE k = "id" -> b.id
          [] k = "type" -> b.type
          [] k = "params" -> b.params
          [] k = "position" -> [c \in {"x", "y"} |-> b.position[c]]]

\* RuleBlock.model_dump(): the dict of the block's fields, Position dumped to
\* a dict of its own
model_dump(b) ==
    [k \in {"id", "type", "params", "position", "connections"} |->
        CASE k = "id" -> b.id
          [] k = "type" -> b.type
          [] k = "params" -> b.params
          [] k = "position" -> [c \in {"x", "y"} |-> b.position[c]]
          [] k = "connections" -> b.connections]

\* RuleBlock(**d): the block a dumped dict parses back to; connections is the
\* one field with a default
ParseBlock(d) ==
    [id |-> d["id"], type |-> d["type"], params |-> d["params"],
     position |-> [x |-> d["position"]["x"], y |-> d["position"]["y"]],
     connections |-> Get(d, "connections", <<>>)]
ParseBlocks(ds) == [i \in 1..Len(ds) |-> ParseBlock(ds[i])]

\* export_rules(blocks, fmt) called at time now; the anchor text is not
\* modelled beyond its tag
export_rules(bs, fmt, now) ==
    IF fmt = "json"
    THEN [format |-> "json",
          data |-> [version |-> "1.0",
                    ace_rules |-> [i \in 1..Len(bs) |-> model_dump(bs[i])],
                    metadata |-> [generated_by |-> "kazt", generated_at |-> now,
                                  block_count |-> Len(bs)]]]
    ELSE IF fmt = "anchor" THEN [format |-> "anchor", data |-> "anchor_code"]
    ELSE [format |-> fmt, data |-> None]

----------------------------------------------------------------------------
(* Inputs *)

Block(id, type, params, connections) ==
    [id |-> id, type |-> type, params |-> params,
     position |-> [x |-> 0, y |-> 0], connections |-> connections]

Ids == <<"a", "b", "c">>

\* A list of blocks without connections, ids a, b, c in order, from a sequence
\* of <<type, params>> templates
Chain(templates) ==
    [i \in 1..Len(templates) |->
        Block(Ids[i], templates[i][1], templates[i][2], <<>>)]

\* Connection lists of a block in a list of n blocks: up to MaxConn targets,
\* each one of the n ids or an id no block has.
ConnLists(n) ==
    UNION {[1..k -> {Ids[i] : i \in 1..n} \cup {"zz"}] : k \in 0..MaxConn}

\* Graph shapes: one to three Priority blocks, connected as cs says
GraphList(n, cs) == [i \in 1..n |-> Block(Ids[i], "priority", NoParams, cs[i])]

\* Ordering and Matching blocks with and without their parameter
OrderingTemplates ==
    {<<"ordering", p>> : p \in {NoParams, [method |-> "FIFO"],
                                [method |-> "price_time"], [method |-> "pro_rata"]}}
MatchingTemplates ==
    {<<"matching", p>> : p \in {NoParams, [engine |-> "clob"], [engine |-> "amm"],
                                [engine |-> "rfq"]}}
OrderMatchLists ==
    {Chain(<<t>>) : t \in OrderingTemplates \cup MatchingTemplates}
    \cup {Chain(<<o, m>>) : o \in OrderingTemplates, m \in MatchingTemplates}
    \cup {Chain(<<m, o>>) : o \in OrderingTemplates, m \in MatchingTemplates}
    \cup {Chain(t) : t \in [1..3 -> {<<"ordering", [method |-> "pro_rata"]>>,
                                     <<"matching", NoParams>>,
                                     <<"matching", [engine |-> "clob"]>>}]}

\* Filter blocks by their address lists: absent, empty, one or two addresses
AddrLists == {<<>>, <<"s1">>, <<"s2">>, <<"s1", "s2">>, <<"s2", "s1">>}
ListParams ==
    {NoParams}
    \cup {[blacklist |-> bl] : bl \in AddrLists}
    \cup {[whitelist |-> wl] : wl \in AddrLists}
    \cup {[blacklist |-> bl, whitelist |-> wl] : bl \in AddrLists, wl \in AddrLists}
FilterListLists == {Chain(<<(<<"filter", p>>)>>) : p \in ListParams}

\* Batching blocks by their parameters
BatchingParamSets ==
    {NoParams, [interval_ms |-> 10], [interval_ms |-> 49], [interval_ms |-> 50],
     [max_batch |-> 1], [max_batch |-> 2], [min_batch |-> 51],
     [min_batch |-> 10, max_batch |-> 5], [min_batch |-> 2, max_batch |-> 2],
     [interval_ms |-> 20, min_batch |-> 10, max_batch |-> 5],
     [interval_ms |-> 20, min_batch |-> 1, max_batch |-> 1000]}
BatchingLists ==
    {Chain(<<(<<"batching", p>>)>>) : p \in BatchingParamSets}
    \cup {Chain(<<(<<"batching", p>>), <<"batching", q>>>>) :
            p \in {NoParams, [interval_ms |-> 20], [min_batch |-> 51]},
            q \in {NoParams, [interval_ms |-> 20], [min_batch |-> 10, max_batch |-> 5]}}

\* Pipelines the simulation runs: Filter, Ordering and Batching blocks
SimFilters ==
    {<<"filter", p>> : p \in {NoParams, [whitelist |-> <<"s1">>],
                              [blacklist |-> <<"s1">>],
                              [blacklist |-> <<"s2">>, whitelist |-> <<"s1">>],
                              [max_size |-> 3], [min_size |-> 3], [max_size |-> 0],
                              [min_size |-> 0],
                              [whitelist |-> <<"s1">>, max_size |-> 3],
                              [max_size |-> 3, min_size |-> 6],
                              [blacklist |-> <<"s1">>, min_size |-> 3]}}
PairFilters ==
    {<<"filter", p>> : p \in {[whitelist |-> <<"s1">>], [blacklist |-> <<"s1">>],
                              [max_size |-> 3], [min_size |-> 3]}}
StageFilters ==
    {<<"filter", p>> : p \in {[whitelist |-> <<"s1">>], [max_size |-> 3]}}
SimBatchings ==
    {<<"batching", p>> : p \in {NoParams, [max_batch |-> 1], [max_batch |-> 2]}}
PipelineLists ==
    {Chain(<<t>>) : t \in SimFilters \cup SimBatchings}
    \cup {Chain(<<f1, f2>>) : f1 \in PairFilters, f2 \in PairFilters}
    \cup {Chain(<<o1, o2>>) : o1 \in OrderingTemplates, o2 \in OrderingTemplates}
    \cup {Chain(<<b1, b2>>) : b1 \in SimBatchings, b2 \in SimBatchings}
    \cup {Chain(<<f, o>>) : f \in StageFilters, o \in OrderingTemplates}
    \cup {Chain(<<f, b>>) : f \in StageFilters, b \in SimBatchings}
    \cup {Chain(<<o, b>>) : o \in OrderingTemplates, b \in SimBatchings}
    \cup {Chain(<<f, o, b>>) : f \in StageFilters, o \in OrderingTemplates,
                               b \in SimBatchings \ {<<"batching", NoParams>>}}
    \cup {Chain(<<o1, o2, <<"batching", [max_batch |-> 1]>>>>) :
            o1 \in {<<"ordering", [method |-> "FIFO"]>>,
                    <<"ordering", [method |-> "price_time"]>>},
            o2 \in {<<"ordering", [method |-> "FIFO"]>>,
                    <<"ordering", [method |-> "price_time"]>>}}

\* Named cases: larger graphs, repeated ids, and lists on which several checks
\* report at once
Diamond ==
    <<Block("a", "priority", NoParams, <<"b", "c">>),
      Block("b", "priority", NoParams, <<"d">>),
      Block("c", "priority", NoParams, <<"d">>),
      Block("d", "priority", NoParams, <<>>)>>
TwoCycles ==
    <<Block("a", "priority", NoParams, <<"b">>),
      Block("b", "priority", NoParams, <<"a">>),
      Block("c", "priority", NoParams, <<"d", "zz">>),
      Block("d", "priority", NoParams, <<"c", "c">>)>>
TailIntoCycle ==
    <<Block("a", "priority", NoParams, <<"zz", "b">>),
      Block("b", "priority", NoParams, <<"d", "c">>),
      Block("c", "priority", NoParams, <<"d">>),
      Block("d", "priority", NoParams, <<"b">>)>>
RepeatedTarget ==
    <<Block("a", "priority", NoParams, <<"zz", "b", "zz">>),
      Block("b", "priority", NoParams, <<"e", "e">>)>>
RepeatedId ==
    <<Block("a", "priority", NoParams, <<"b">>),
      Block("b", "priority", NoParams, <<>>),
      Block("a", "priority", NoParams, <<>>)>>
RepeatedIdCycle ==
    <<Block("a", "priority", NoParams, <<>>),
      Block("b", "priority", NoParams, <<"a">>),
      Block("a", "priority", NoParams, <<"b">>)>>
EveryFinding ==
    <<Block("a", "ordering", [method |-> "pro_rata"], <<"zz", "b">>),
      Block("b", "matching", NoParams, <<"c">>),
      Block("c", "filter", [blacklist |-> <<"s1", "s2">>,
                            whitelist |-> <<"s2", "s1">>], <<"b", "e">>),
      Block("d", "batching", [interval_ms |-> 20, min_batch |-> 10,
                              max_batch |-> 5], <<>>),
      Block("e", "filter", [blacklist |-> <<"s1">>, whitelist |-> <<"s2">>], <<>>),
      Block("f", "batching", [interval_ms |-> 10], <<"yy">>)>>
EveryWarning ==
    <<Block("a", "filter", [blacklist |-> <<"s1">>, whitelist |-> <<"s2">>], <<"b">>),
      Block("b", "batching", [interval_ms |-> 20], <<"c">>),
      Block("c", "filter", NoParams, <<"d">>),
      Block("d", "batching", [max_batch |-> 1], <<>>)>>
\* A chain of Priority blocks, each connected to the next, one block longer
\* than the has_cycle nesting the interpreter allows
ChainIds == <<"a", "b", "c", "d", "e", "f", "g", "h">>
LongChain ==
    [i \in 1..(RecursionLimit + 1) |->
        Block(ChainIds[i], "priority", NoParams,
              IF i <= RecursionLimit THEN <<ChainIds[i + 1]>> ELSE <<>>)]
NamedLists ==
    {Diamond, TwoCycles, TailIntoCycle, RepeatedTarget, RepeatedId, RepeatedIdCycle,
     EveryFinding, EveryWarning, LongChain}

BlockLists ==
    {<<>>} \cup OrderMatchLists \cup FilterListLists
    \cup BatchingLists \cup PipelineLists \cup NamedLists

HashSeeds == 0..(NumSeeds - 1)

\* Clock readings (int(time.time())) at which an export may run
Times == {1700000000, 1700000001}

\* The transactions the sampler may draw.  Amounts and fees are in whole
\* units; a small transaction pays the low fee, a large one the high fee.
Txs ==
    {[tx_id |-> id, sender |-> s, amount |-> p[1], fee |-> p[2], timestamp |-> 0] :
        id \in {"t1", "t2"}, s \in {"s1", "s2"}, p \in {<<2, 1>>, <<5, 2>>}}

----------------------------------------------------------------------------
(* The state machine *)

\* The parts of the state a specification leaves out stay as they are here
NoCalls == [c \in {} |-> 0]
StoreOff == saved_rules = NoCalls
RngOff == rng0 = 0 /\ rng = 0 /\ drawn = NoCalls
AuthOff ==
    /\ api_keys = NoCalls /\ usage = NoCalls /\ db_users = NoCalls
    /\ session_cache = NoCalls /\ today = 1 /\ served = NoCalls /\ response = None
LockOff == iplock = None /\ ipcalls = NoCalls
RetryOff ==
    /\ max_retries = 1 /\ attempts = <<>> /\ last_exception = None
    /\ last_response = None /\ outcome = None

\* No call is being served by the rule service
NoCall ==
    /\ validation = None
    /\ sample_txs = None
    /\ report = None
    /\ requested = None
    /\ exported = None
    /\ raised = None

Init ==
    /\ \/ blocks \in BlockLists
       \/ \E n \in 1..Len(Ids) : \E cs \in [1..n -> ConnLists(n)] :
             blocks = GraphList(n, cs)
    /\ hashseed \in HashSeeds
    /\ NoCall
    /\ StoreOff /\ RngOff /\ AuthOff /\ LockOff /\ RetryOff

\* No handler is running on the event loop
Idle == validation = None /\ report = None /\ exported = None /\ raised = None

\* POST /validate: rule_service.validate(blocks)
Validate ==
    /\ Idle
    /\ IF ValidateRaises(blocks, hashseed)
       THEN validation' = None /\ raised' = Some(RecursionError)
       ELSE validation' = validate(blocks, hashseed) /\ raised' = None
    /\ UNCHANGED <<blocks, hashseed, sample_txs, report, requested, exported>>
    /\ UNCHANGED <<storeVars, rngVars, authVars, lockVars, retryVars>>

\* POST /simulate: rule_service.simulate(request), run to completion on the
\* event loop; the sample is drawn only after the validator accepted the list
Simulate ==
    /\ Idle
    /\ \E n \in 1..MaxTxs :
        /\ requested' = Some(n)
        /\ IF ValidateRaises(blocks, hashseed)
           THEN /\ validation' = None /\ sample_txs' = None /\ report' = None
                /\ raised' = Some(RecursionError)
           ELSE LET v == validate(blocks, hashseed) IN
                /\ validation' = v
                /\ raised' = None
                /\ IF ~v.valid
                   THEN /\ sample_txs' = None
                        /\ report' = InvalidReport(v, n)
                   ELSE \E txs \in [1..n -> Txs] :
                        /\ sample_txs' = txs
                        /\ report' = RunPipeline(blocks, txs)
    /\ UNCHANGED <<blocks, hashseed, exported>>
    /\ UNCHANGED <<storeVars, rngVars, authVars, lockVars, retryVars>>

\* Export keeping what it generated in saved_rules
Export_Saving ==
    /\ Idle
    /\ \E now \in Times :
         /\ exported' = export_rules(blocks, "json", now)
         /\ saved_rules' = [id \in DOMAIN saved_rules \cup {"export"} |->
                               IF id = "export" THEN exported' ELSE saved_rules[id]]
    /\ UNCHANGED <<blocks, hashseed, validation, sample_txs, report, requested, raised>>
    /\ UNCHANGED <<rngVars, authVars, lockVars, retryVars>>

\* POST /export with format json: rule_service.export_rules(blocks, "json")
Export ==
    /\ Idle
    /\ \E now \in Times : exported' = export_rules(blocks, "json", now)
    /\ UNCHANGED <<blocks, hashseed, validation, sample_txs, report, requested, raised>>
    /\ UNCHANGED <<storeVars, rngVars, authVars, lockVars, retryVars>>

\* The response has been sent; the locals of the call are gone
Return ==
    /\ ~Idle
    /\ validation' = None
    /\ sample_txs' = None
    /\ report' = None
    /\ requested' = None
    /\ exported' = None
    /\ raised' = None
    /\ UNCHANGED <<blocks, hashseed>>
    /\ UNCHANGED <<storeVars, rngVars, authVars, lockVars, retryVars>>

\* The service process is restarted between requests: the new interpreter has
\* a new hash seed and an empty saved_rules
Restart ==
    /\ Idle
    /\ hashseed' \in HashSeeds \ {hashseed}
    /\ saved_rules' = NoCalls
    /\ UNCHANGED <<blocks, validation, sample_txs, report, requested, exported, raised>>
    /\ UNCHANGED <<rngVars, authVars, lockVars, retryVars>>

Next == Validate \/ Simulate \/ Export \/ Return \/ Restart

Spec == Init /\ [][Next]_vars

\* rule_service.save_rule_set(rule_set, owner): the set is stored under a new
\* random id; nothing of the call outlives it but the entry
RuleIds == {"r1", "r2"}
Owners == {"w1"}
save_rule_set(store, bs, owner, rule_id, now) ==
    LET data == [id |-> rule_id, name |-> "rules", description |-> "",
                 blocks |-> [i \in 1..Len(bs) |-> model_dump(bs[i])],
                 owner |-> owner, created_at |-> now, updated_at |-> now]
    IN [id \in DOMAIN store \cup {rule_id} |->
           IF id = rule_id THEN data ELSE store[id]]

Save ==
    /\ Idle
    /\ \E rule_id \in RuleIds, owner \in Owners, now \in Times :
         saved_rules' = save_rule_set(saved_rules, blocks, owner, rule_id, now)
    /\ UNCHANGED <<engineVars, rngVars, authVars, lockVars, retryVars>>

\* The next request carries another block list
StoreLists ==
    {Chain(<<(<<"filter", [whitelist |-> <<"s1">>]>>),
             <<"ordering", [method |-> "price_time"]>>,
             <<"batching", [max_batch |-> 1]>>>>),
     Chain(<<(<<"filter", [max_size |-> 3, min_size |-> 6]>>)>>),
     TwoCycles}

NextRequest ==
    /\ Idle
    /\ blocks' \in StoreLists \ {blocks}
    /\ UNCHANGED <<hashseed, validation, sample_txs, report, requested, exported, raised>>
    /\ UNCHANGED <<storeVars, rngVars, authVars, lockVars, retryVars>>

\* The service with its store: validate, simulate, export and save requests
\* in any sequence, on any of the lists
StoreInit ==
    /\ blocks \in StoreLists
    /\ hashseed \in HashSeeds
    /\ NoCall
    /\ StoreOff /\ RngOff /\ AuthOff /\ LockOff /\ RetryOff

StoreNext ==
    Validate \/ Simulate \/ Export \/ Save \/ NextRequest \/ Return \/ Restart

StoreSpec == StoreInit /\ [][StoreNext]_vars

\* The random module's generator, one per process: its states, the step to
\* the next state, and the number a state hands out
RngStates == 0..7
NextRng(g) == (5 * g + 3) % 8
RECURSIVE Draws(_, _)
Draws(g, k) == IF k = 0 THEN <<>> ELSE <<NextRng(g)>> \o Draws(NextRng(g), k - 1)
RECURSIVE RngAfter(_, _)
RngAfter(g, k) == IF k = 0 THEN g ELSE RngAfter(NextRng(g), k - 1)

\* random.uniform(0.1, 1000.0), random.uniform(0.001, 0.1) and
\* random.randint(0, 60) on a number handed out, scaled to the amounts and
\* fees of Txs
UniformAmount(x) == IF x < 4 THEN 2 ELSE 5
UniformFee(x) == IF x < 4 THEN 1 ELSE 2
RandInt(x) == x % 2

\* uuid.uuid4().hex[:8], from the operating system's entropy
UuidPairs == {<<id, s>> : id \in {"t1", "t2"}, s \in {"s1", "s2"}}

\* The sample of n transactions: three numbers of the generator each, in the
\* order amount, fee, timestamp
GeneratedSample(n, uuids, numbers, now) ==
    [i \in 1..n |->
        [tx_id |-> uuids[i][1], sender |-> uuids[i][2],
         amount |-> UniformAmount(numbers[3 * i - 2]),
         fee |-> UniformFee(numbers[3 * i - 1]),
         timestamp |-> now - RandInt(numbers[3 * i])]]

\* POST /simulate, call c, with the generator written out: simulate draws the
\* sample from the process's one generator and leaves it advanced.  The
\* lists of StoreLists are too short for validate to exhaust the stack.
SimCalls == {1, 2}
SimulateCall(c) ==
    /\ Idle
    /\ c \notin DOMAIN drawn
    /\ \E n \in 1..MaxTxs, now \in Times :
        LET v == validate(blocks, hashseed)
            numbers == IF v.valid THEN Draws(rng, 3 * n) ELSE <<>>
        IN /\ requested' = Some(n)
           /\ validation' = v
           /\ raised' = None
           /\ drawn' = [d \in DOMAIN drawn \cup {c} |->
                           IF d = c THEN numbers ELSE drawn[d]]
           /\ rng' = RngAfter(rng, Len(numbers))
           /\ IF ~v.valid
              THEN sample_txs' = None /\ report' = InvalidReport(v, n)
              ELSE \E uuids \in [1..n -> UuidPairs] :
                     /\ sample_txs' = GeneratedSample(n, uuids, numbers, now)
                     /\ report' = RunPipeline(blocks, sample_txs')
    /\ UNCHANGED <<blocks, hashseed, exported, rng0>>
    /\ UNCHANGED <<storeVars, authVars, lockVars, retryVars>>

\* Two simulate calls served by one process, in either order
RngInit ==
    /\ blocks \in StoreLists
    /\ hashseed \in HashSeeds
    /\ NoCall
    /\ rng0 \in RngStates /\ rng = rng0 /\ drawn = NoCalls
    /\ StoreOff /\ AuthOff /\ LockOff /\ RetryOff

RngNext == (\E c \in SimCalls : SimulateCall(c)) \/ Return

RngSpec == RngInit /\ [][RngNext]_vars

\* AuthService.TIER_FEATURES and TIER_LIMITS, for the tiers a wallet is
\* followed through
Tiers == {"free", "basic", "pro", "elite"}
TIER_FEATURES ==
    [free |-> {"design", "simulate"},
     basic |-> {"design", "simulate", "save", "export_json"},
     pro |-> {"design", "simulate", "save", "export_json", "export_anchor",
              "bam_config"},
     elite |-> {"design", "simulate", "save", "export_json", "export_anchor",
                "bam_config", "deploy", "templates"}]
TIER_LIMITS == [free |-> 3, basic |-> 50, pro |-> 500, elite |-> -1]

\* The header X-API-Key: the one key connect_wallet issues, or none (None
\* and the empty string are not told apart by `x_api_key or ""`)
NoKey == ""
Keys == {"k1"}
Callers == {NoKey} \cup Keys

\* d[k] = v added to the dict d
DictSet(d, k, v) == [x \in DOMAIN d \cup {k} |-> IF x = k THEN v ELSE d[x]]
\* del d[k]
DictDel(d, k) == [x \in DOMAIN d \ {k} |-> d[x]]

\* verify_api_key(api_key): the tier of the record found in the cache, else
\* in the database, else in the in-memory table; None if in none
verify_api_key(api_key) ==
    IF api_key \in DOMAIN session_cache THEN Some(session_cache[api_key])
    ELSE IF api_key \in DOMAIN db_users THEN Some(db_users[api_key])
    ELSE IF api_key \in DOMAIN api_keys THEN Some(api_keys[api_key])
    ELSE None

\* The cache after verify_api_key(api_key): a record found in the database is
\* cached
CacheAfterVerify(api_key) ==
    IF api_key \notin DOMAIN session_cache /\ api_key \in DOMAIN db_users
    THEN DictSet(session_cache, api_key, db_users[api_key])
    ELSE session_cache

\* check_rate_limit(api_key): <<allowed, used, limit>>
check_rate_limit(api_key) ==
    LET known == api_key \in DOMAIN api_keys
        tier == IF known THEN api_keys[api_key] ELSE "free"
        usage_key == IF known THEN api_key ELSE "anonymous"
        limit == TIER_LIMITS[tier]
        stored == Get(usage, usage_key, [date |-> 0, count |-> 0])
        u == IF stored.date # today THEN [date |-> today, count |-> 0] ELSE stored
    IN IF limit = -1 THEN <<TRUE, 0, -1>>
       ELSE IF u.count >= limit THEN <<FALSE, u.count, limit>>
       ELSE <<TRUE, u.count, limit>>

\* increment_usage(api_key): self.usage afterwards
increment_usage(api_key) ==
    LET usage_key == IF api_key # NoKey THEN api_key ELSE "anonymous"
        stored == Get(usage, usage_key, [date |-> 0, count |-> 0])
        u == IF stored.date # today THEN [date |-> today, count |-> 0] ELSE stored
    IN DictSet(usage, usage_key, [u EXCEPT !.count = @ + 1])

\* get_tier_info(api_key)["tier"]
get_tier_info(api_key) ==
    IF api_key \in DOMAIN api_keys THEN api_keys[api_key] ELSE "free"

\* A key nobody has been issued or has sent yet
Fresh(k) ==
    /\ k \notin DOMAIN api_keys \cup DOMAIN db_users \cup DOMAIN session_cache
    /\ k \notin DOMAIN usage
    /\ served[k] = 0

\* POST /auth/connect: connect_wallet issues a new key with the wallet's tier,
\* stores it in the in-memory table and, if the database is connected, there
ConnectWallet ==
    /\ \E k \in Keys, tier \in Tiers, db_connected \in BOOLEAN :
         /\ Fresh(k)
         /\ api_keys' = DictSet(api_keys, k, tier)
         /\ db_users' = IF db_connected THEN DictSet(db_users, k, tier) ELSE db_users
    /\ response' = None
    /\ UNCHANGED <<usage, session_cache, today, served>>
    /\ UNCHANGED <<engineVars, storeVars, rngVars, lockVars, retryVars>>

\* POST /rules/simulate with header x_api_key
SimulateRoute ==
    /\ \E x_api_key \in Callers :
         LET limited == check_rate_limit(x_api_key) IN
         /\ served[x_api_key] < MaxServed
         /\ IF ~limited[1]
            THEN /\ response' = Some([route |-> "simulate", key |-> x_api_key,
                                       status |-> 429, verified |-> None,
                                       tier |-> None])
                 /\ UNCHANGED <<usage, served>>
            ELSE /\ usage' = increment_usage(x_api_key)
                 /\ served' = [served EXCEPT ![x_api_key] = @ + 1]
                 /\ response' = Some([route |-> "simulate", key |-> x_api_key,
                                       status |-> 200, verified |-> None,
                                       tier |-> None])
    /\ UNCHANGED <<api_keys, db_users, session_cache, today>>
    /\ UNCHANGED <<engineVars, storeVars, rngVars, lockVars, retryVars>>

\* What a route asks of the tier get_tier_info reports
GatedRoutes == {"save", "export_anchor", "deploy"}
RouteAllows(route, tier) ==
    CASE route = "save" -> "save" \in TIER_FEATURES[tier]
      [] route = "export_anchor" -> "export_anchor" \in TIER_FEATURES[tier]
      [] route = "deploy" -> tier \in {"pro", "elite", "whale"}

\* POST /rules/save, POST /rules/export with format anchor, POST
\* /deploy/simulate: 401 without a key or with one verify_api_key refuses, 403
\* when the tier of get_tier_info lacks the feature, else served
GatedRoute ==
    /\ \E route \in GatedRoutes, x_api_key \in Callers :
         LET key_data == IF x_api_key = NoKey THEN None ELSE verify_api_key(x_api_key)
             tier == get_tier_info(x_api_key)
             status == IF key_data = None THEN 401
                       ELSE IF ~RouteAllows(route, tier) THEN 403 ELSE 200
         IN /\ session_cache' = IF x_api_key = NoKey THEN session_cache
                                 ELSE CacheAfterVerify(x_api_key)
            /\ response' = Some([route |-> route, key |-> x_api_key,
                                  status |-> status, verified |-> key_data,
                                  tier |-> IF key_data = None THEN None ELSE Some(tier)])
            /\ IF route = "save" /\ status = 200
               THEN \E rule_id \in RuleIds, now \in Times :
                      saved_rules' = save_rule_set(saved_rules, blocks, "w1", rule_id, now)
               ELSE UNCHANGED saved_rules
    /\ UNCHANGED <<api_keys, usage, db_users, today, served>>
    /\ UNCHANGED <<engineVars, rngVars, lockVars, retryVars>>

\* The cache entry of a key expires (ttl 300)
SessionExpires ==
    /\ \E k \in DOMAIN session_cache : session_cache' = DictDel(session_cache, k)
    /\ response' = None
    /\ UNCHANGED <<api_keys, usage, db_users, today, served>>
    /\ UNCHANGED <<engineVars, storeVars, rngVars, lockVars, retryVars>>

\* Midnight: time.strftime("%Y-%m-%d") changes
DayChange ==
    /\ today < MaxDay
    /\ today' = today + 1
    /\ served' = [c \in Callers |-> 0]
    /\ response' = None
    /\ UNCHANGED <<api_keys, usage, db_users, session_cache>>
    /\ UNCHANGED <<engineVars, storeVars, rngVars, lockVars, retryVars>>

\* The process is restarted: the in-memory tables are empty again, the
\* database and the cache keep what they hold
AuthRestart ==
    /\ api_keys # NoCalls \/ usage # NoCalls \/ saved_rules # NoCalls
    /\ api_keys' = NoCalls
    /\ usage' = NoCalls
    /\ saved_rules' = NoCalls
    /\ served' = [c \in Callers |-> 0]
    /\ response' = None
    /\ UNCHANGED <<db_users, session_cache, today>>
    /\ UNCHANGED <<engineVars, rngVars, lockVars, retryVars>>

AuthInit ==
    /\ blocks = EveryWarning
    /\ hashseed = 0
    /\ NoCall
    /\ api_keys = NoCalls /\ usage = NoCalls /\ db_users = NoCalls
    /\ session_cache = NoCalls /\ today = 1 /\ served = [c \in Callers |-> 0]
    /\ response = None
    /\ StoreOff /\ RngOff /\ LockOff /\ RetryOff

AuthNext ==
    \/ ConnectWallet
    \/ SimulateRoute
    \/ GatedRoute
    \/ SessionExpires
    \/ DayChange
    \/ AuthRestart

AuthSpec == AuthInit /\ [][AuthNext]_vars

\* check_ip_lock(api_key, client_ip), calls for one key from the clients'
\* addresses.  The cache is connected and the entry does not expire while
\* the calls run.  A call is suspended at each await, so other calls run
\* between its cache_service.get and its cache_service.set.
IpCalls == {1, 2, 3}
ClientIps == {"ip1", "ip2"}

\* locked_ip = await cache_service.get(lock_key); a call that finds a lock
\* returns locked_ip == client_ip
IpLockGet(c) ==
    /\ c \notin DOMAIN ipcalls
    /\ \E client_ip \in ClientIps :
         ipcalls' = DictSet(ipcalls, c,
                        [client_ip |-> client_ip, locked_ip |-> iplock,
                         returned |-> IF iplock = None THEN None
                                      ELSE Some(iplock = Some(client_ip))])
    /\ UNCHANGED iplock
    /\ UNCHANGED <<engineVars, storeVars, rngVars, authVars, retryVars>>

\* if locked_ip is None: await cache_service.set(lock_key, client_ip,
\* ttl=86400); return True
IpLockSet(c) ==
    /\ c \in DOMAIN ipcalls
    /\ ipcalls[c].returned = None
    /\ iplock' = Some(ipcalls[c].client_ip)
    /\ ipcalls' = [ipcalls EXCEPT ![c].returned = Some(TRUE)]
    /\ UNCHANGED <<engineVars, storeVars, rngVars, authVars, retryVars>>

LockInit ==
    /\ blocks = <<>> /\ hashseed = 0 /\ NoCall
    /\ iplock = None /\ ipcalls = NoCalls
    /\ StoreOff /\ RngOff /\ AuthOff /\ RetryOff

LockNext == \E c \in IpCalls : IpLockGet(c) \/ IpLockSet(c)

LockSpec == LockInit /\ [][LockNext]_vars

\* APIClient.request: what an attempt (self._client.request) can end with
Response(status) == [kind |-> "response", status |-> status]
Failure(kind) == [kind |-> kind, status |-> 0]
AttemptResults ==
    {Response(st) : st \in {200, 400, 404, 418, 429, 500, 503}}
    \cup {Failure("TimeoutException"), Failure("ConnectError")}

\* The statuses after which the loop goes on to the next attempt
Retried(status) == status = 429 \/ status >= 500

\* One pass of `for attempt in range(self.max_retries)`
Attempt ==
    /\ outcome = None
    /\ Len(attempts) < max_retries
    /\ \E r \in AttemptResults :
         /\ attempts' = Append(attempts, r)
         /\ IF r.kind = "response"
            THEN /\ last_response' = Some(r.status)
                 /\ UNCHANGED last_exception
                 /\ outcome' = IF r.status < 400 THEN Some(r)
                                ELSE IF r.status \in {400, 401, 403, 404} THEN Some(r)
                                ELSE IF Retried(r.status) THEN None
                                ELSE Some(r)
            ELSE /\ last_exception' = Some(r.kind)
                 /\ UNCHANGED <<last_response, outcome>>
    /\ UNCHANGED max_retries
    /\ UNCHANGED <<engineVars, storeVars, rngVars, authVars, lockVars>>

\* After the loop: if last_exception: raise last_exception; return response
Exhausted ==
    /\ outcome = None
    /\ Len(attempts) = max_retries
    /\ outcome' = IF last_exception # None THEN Some(Failure(last_exception[1]))
                   ELSE Some(Response(last_response[1]))
    /\ UNCHANGED <<max_retries, attempts, last_exception, last_response>>
    /\ UNCHANGED <<engineVars, storeVars, rngVars, authVars, lockVars>>

RetryInit ==
    /\ blocks = <<>> /\ hashseed = 0 /\ NoCall
    /\ max_retries \in 1..MaxRetries
    /\ attempts = <<>> /\ last_exception = None /\ last_response = None
    /\ outcome = None
    /\ StoreOff /\ RngOff /\ AuthOff /\ LockOff

RetryNext == Attempt \/ Exhausted

RetrySpec == RetryInit /\ [][RetryNext]_vars

\* The service answering POST /rules/validate only
ValidateNext == Validate \/ Return \/ Restart

ValidateSpec == Init /\ [][ValidateNext]_vars

\* The service answering POST /rules/simulate only, for the pipelines of
\* Filter, Ordering and Batching blocks and the named lists
SimulateInit ==
    /\ blocks \in PipelineLists \cup NamedLists
    /\ hashseed \in HashSeeds
    /\ NoCall
    /\ StoreOff /\ RngOff /\ AuthOff /\ LockOff /\ RetryOff

SimulateNext == Simulate \/ Return \/ Restart

SimulateSpec == SimulateInit /\ [][SimulateNext]_vars

\* The service answering POST /rules/export only
ExportNext == Export \/ Return \/ Restart

ExportSpec == Init /\ [][ExportNext]_vars

----------------------------------------------------------------------------
(* Vocabulary of the properties *)

Min(S) == CHOOSE x \in S : \A y \in S : x <= y
Max(S) == CHOOSE x \in S : \A y \in S : y <= x

\* Number of entries of a list that satisfy Test
CountIf(list, Test(_)) == Cardinality({i \in 1..Len(list) : Test(list[i])})

RECURSIVE Factorial(_)
Factorial(n) == IF n <= 1 THEN 1 ELSE n * Factorial(n - 1)

\* Every order in which a set can be iterated
AllOrders(S) == {Permute(SortedSeq(S), k) : k \in 0..(Factorial(Cardinality(S)) - 1)}

UniqueIds(bs) == \A i, j \in 1..Len(bs) : bs[i].id = bs[j].id => i = j

\* The connection graph: v is a successor of u when a block with id u lists v
\* and v is the id of a block
Successors(bs, u) ==
    {v \in BlockIds(bs) : \E i \in 1..Len(bs) : bs[i].id = u /\ InList(v, bs[i].connections)}

RECURSIVE Closure(_, _)
Closure(bs, S) ==
    LET T == S \cup UNION {Successors(bs, v) : v \in S}
    IN IF T = S THEN S ELSE Closure(bs, T)

\* Ids reachable from u along one or more connections
Reachable(bs, u) == Closure(bs, Successors(bs, u))

OnCycle(bs, u) == u \in Reachable(bs, u)
HasDirectedCycle(bs) ==
    /\ \E i \in 1..Len(bs) : bs[i].connections # <<>>
    /\ \E u \in BlockIds(bs) : OnCycle(bs, u)

\* The service validating and simulating lists whose connections contain a
\* directed cycle, and the named lists
CycleInit ==
    /\ \/ blocks \in NamedLists
       \/ \E n \in 1..Len(Ids) : \E cs \in [1..n -> ConnLists(n)] :
             /\ blocks = GraphList(n, cs)
             /\ HasDirectedCycle(blocks)
    /\ hashseed \in HashSeeds
    /\ NoCall
    /\ StoreOff /\ RngOff /\ AuthOff /\ LockOff /\ RetryOff

CycleNext == Validate \/ Simulate \/ Return \/ Restart

CycleSpec == CycleInit /\ [][CycleNext]_vars

\* validate returned its response to the caller of the validate route; the
\* response simulate works from is the same value, validate(blocks, hashseed)
ValidateReturned == validation # None /\ report = None

\* simulate ran the pipeline on a sample
SimRan == report # None /\ sample_txs # None
FilterIdx(bs) == {k \in 1..Len(bs) : bs[k].type = "filter"}
FilteringIdx(bs, tx) == {k \in FilterIdx(bs) : FilterBlockVerdict(bs[k], tx) # None}

----------------------------------------------------------------------------
(* C1.  As claimed: with two or more Filter blocks, a transaction is        *)
(* filtered exactly when the LAST Filter block filters it, with that       *)
(* block's reason.                                                         *)
C1_LastFilterDecides ==
    (SimRan /\ Cardinality(FilterIdx(blocks)) >= 2) =>
        \A i \in 1..Len(sample_txs) :
            LET v == FilterBlockVerdict(blocks[Max(FilterIdx(blocks))], sample_txs[i])
                r == report.results[i]
            IN /\ (r.outcome = "filtered") <=> (v # None)
               /\ v # None => r.reason = v

(* C1, amended.  With two or more Filter blocks, a transaction is filtered  *)
(* exactly when at least one Filter block filters it, and the reason is    *)
(* that of the FIRST Filter block, in block order, that filters it.        *)
C1_FirstFilterDecides ==
    (SimRan /\ Cardinality(FilterIdx(blocks)) >= 2) =>
        \A i \in 1..Len(sample_txs) :
            LET hits == FilteringIdx(blocks, sample_txs[i])
                r == report.results[i]
            IN IF hits = {}
               THEN r.outcome # "filtered" /\ r.reason = None
               ELSE /\ r.outcome = "filtered"
                    /\ r.reason = FilterBlockVerdict(blocks[Min(hits)], sample_txs[i])

\* Some transaction is filtered by an earlier Filter block although the last
\* Filter block lets it pass
C1_Witness ==
    /\ SimRan /\ Cardinality(FilterIdx(blocks)) >= 2
    /\ \E i \in 1..Len(sample_txs) :
          /\ FilteringIdx(blocks, sample_txs[i]) # {}
          /\ Max(FilterIdx(blocks)) \notin FilteringIdx(blocks, sample_txs[i])
          /\ report.results[i].outcome = "filtered"

(* C2.  On a non-empty list, valid is true exactly when conflicts is empty  *)
(* and cycle_detected is false; the warnings play no part.                 *)
C2_ValidIffNoConflictNoCycle ==
    (validation # None /\ Len(blocks) > 0) =>
        (validation.valid <=>
            (Len(validation.conflicts) = 0 /\ ~validation.cycle_detected))

\* A list that is valid although it has warnings
C2_Witness ==
    /\ validation # None /\ Len(blocks) > 0
    /\ validation.valid /\ Len(validation.warnings) > 0

C4_OneCycleConflict ==
    validation # None =>
        CountIf(validation.conflicts, LAMBDA c : c = CycleMsg)
            = IF validation.cycle_detected THEN 1 ELSE 0

\* A cycle was reported on a graph with two cycles that do not reach each other
C4_Witness ==
    /\ validation # None /\ validation.cycle_detected
    /\ \E u, v \in BlockIds(blocks) :
          /\ OnCycle(blocks, u) /\ OnCycle(blocks, v)
          /\ v \notin Reachable(blocks, u) /\ u \notin Reachable(blocks, v)

(* C5.  On a non-empty list every connection entry whose target is no block *)
(* id yields one conflict naming the source block and the target; such an  *)
(* entry makes valid false, and leaves every other finding and             *)
(* cycle_detected as they are without it.                                  *)
IsNonExistent(c) == c.kind = NonExistentMsg("", "").kind

\* The list with the entries that name no block removed
Pruned(bs) ==
    [i \in 1..Len(bs) |->
        [bs[i] EXCEPT !.connections = SelectSeq(@, LAMBDA t : t \in BlockIds(bs))]]

\* Entries <<i, j>> of blocks with id src that name the missing id tgt
DanglingEntries(bs, src, tgt) ==
    UNION {{<<i, j>> : j \in {k \in 1..Len(bs[i].connections) :
                                 /\ bs[i].id = src
                                 /\ bs[i].connections[k] = tgt
                                 /\ tgt \notin BlockIds(bs)}} : i \in 1..Len(bs)}

Targets(bs) == UNION {ToSet(bs[i].connections) : i \in 1..Len(bs)}

C5_DanglingConnections ==
    (ValidateReturned /\ Len(blocks) > 0) =>
        /\ \A src \in BlockIds(blocks) : \A tgt \in Targets(blocks) :
              CountIf(validation.conflicts, LAMBDA c : c = NonExistentMsg(src, tgt))
                  = Cardinality(DanglingEntries(blocks, src, tgt))
        /\ CountIf(validation.conflicts, IsNonExistent)
              = Cardinality(UNION {DanglingEntries(blocks, src, tgt) :
                                      src \in BlockIds(blocks), tgt \in Targets(blocks)})
        /\ (Targets(blocks) \ BlockIds(blocks) # {}) => ~validation.valid
        /\ LET rest == validate(Pruned(blocks), hashseed)
           IN /\ SelectSeq(validation.conflicts, LAMBDA c : ~IsNonExistent(c))
                    = rest.conflicts
              /\ validation.warnings = rest.warnings
              /\ validation.cycle_detected = rest.cycle_detected

\* A block lists the same missing id twice; the list is invalid, has no cycle
\* and the later checks reported too
C5_Witness ==
    /\ validation # None /\ ~validation.valid /\ ~validation.cycle_detected
    /\ Len(validation.warnings) > 0
    /\ \E src \in BlockIds(blocks) : \E tgt \in Targets(blocks) :
          /\ Cardinality(DanglingEntries(blocks, src, tgt)) = 2
          /\ CountIf(validation.conflicts, LAMBDA c : c = NonExistentMsg(src, tgt)) = 2

(* C6.  validate on the empty list returns valid = false, conflicts =       *)
(* ["No blocks provided"], warnings = [], cycle_detected = false.          *)
C6_EmptyList ==
    (validation # None /\ Len(blocks) = 0) =>
        validation = [valid |-> FALSE, conflicts |-> <<NoBlocksMsg>>,
                      warnings |-> <<>>, cycle_detected |-> FALSE]

C6_Witness == validation # None /\ Len(blocks) = 0 /\ report = None

(* C7.  The pro-rata/CLOB conflict occurs once for every pair of an         *)
(* Ordering block with method pro_rata and a Matching block with engine    *)
(* clob (a missing engine counting as clob, a missing method as FIFO).     *)
ProRataBlocks(bs) ==
    {i \in 1..Len(bs) :
        /\ bs[i].type = "ordering"
        /\ "method" \in DOMAIN bs[i].params
        /\ bs[i].params["method"] = "pro_rata"}
ClobBlocks(bs) ==
    {i \in 1..Len(bs) :
        /\ bs[i].type = "matching"
        /\ ("engine" \in DOMAIN bs[i].params => bs[i].params["engine"] = "clob")}

C7_ProRataClobPairs ==
    (validation # None /\ Len(blocks) > 0) =>
        CountIf(validation.conflicts, LAMBDA c : c = ProRataClobMsg)
            = Cardinality(ProRataBlocks(blocks)) * Cardinality(ClobBlocks(blocks))

\* Two pairs, one of them with a Matching block that names no engine
C7_Witness ==
    /\ validation # None
    /\ CountIf(validation.conflicts, LAMBDA c : c = ProRataClobMsg) = 2
    /\ \E i \in ClobBlocks(blocks) : "engine" \notin DOMAIN blocks[i].params

(* C8.  A Filter block gets the overlap conflict, naming it and the shared  *)
(* addresses, exactly when its blacklist and whitelist are both non-empty  *)
(* and share an address; the whitelist-priority warning and no conflict    *)
(* exactly when both are non-empty and disjoint; neither otherwise.        *)
IsOverlap(c) == c.kind = OverlapMsg("", <<>>).kind

C8_FilterOverlap ==
    (validation # None /\ Len(blocks) > 0 /\ UniqueIds(blocks)) =>
        /\ \A i \in 1..Len(blocks) :
             LET b == blocks[i]
                 bl == IF "blacklist" \in DOMAIN b.params THEN b.params["blacklist"] ELSE <<>>
                 wl == IF "whitelist" \in DOMAIN b.params THEN b.params["whitelist"] ELSE <<>>
                 shared == {x \in ToSet(bl) : InList(x, wl)}
                 both == bl # <<>> /\ wl # <<>>
                 named == {k \in 1..Len(validation.conflicts) :
                              /\ IsOverlap(validation.conflicts[k])
                              /\ validation.conflicts[k].block = b.id}
                 warned == CountIf(validation.warnings, LAMBDA w : w = BothListsMsg(b.id))
             IN IF b.type = "filter" /\ both /\ shared # {}
                THEN /\ Cardinality(named) = 1 /\ warned = 0
                     /\ \A k \in named :
                           /\ ToSet(validation.conflicts[k].addrs) = shared
                           /\ Len(validation.conflicts[k].addrs) = Cardinality(shared)
                ELSE IF b.type = "filter" /\ both
                THEN named = {} /\ warned = 1
                ELSE named = {} /\ warned = 0

\* A Filter block whose lists share two addresses got its conflict
C8_Witness ==
    /\ validation # None /\ UniqueIds(blocks)
    /\ \E k \in 1..Len(validation.conflicts) :
          /\ IsOverlap(validation.conflicts[k])
          /\ Len(validation.conflicts[k].addrs) = 2

(* C9.  A Batching block (defaults interval_ms = 100, max_batch = 50,       *)
(* min_batch = 1) gets a conflict exactly when min_batch > max_batch and a *)
(* warning exactly when interval_ms < 50; a list whose only finding is the *)
(* interval warning is valid.                                              *)
IsMinMax(c) == c.kind = MinMaxMsg("", 0, 0).kind
IsLowInterval(w) == w.kind = LowIntervalMsg("", 0).kind

C9_BatchingChecks ==
    (validation # None /\ Len(blocks) > 0 /\ UniqueIds(blocks)) =>
        /\ \A i \in 1..Len(blocks) :
             LET b == blocks[i]
                 interval == IF "interval_ms" \in DOMAIN b.params
                             THEN b.params["interval_ms"] ELSE 100
                 max_batch == IF "max_batch" \in DOMAIN b.params
                              THEN b.params["max_batch"] ELSE 50
                 min_batch == IF "min_batch" \in DOMAIN b.params
                              THEN b.params["min_batch"] ELSE 1
                 conflicts == CountIf(validation.conflicts,
                                      LAMBDA c : IsMinMax(c) /\ c.block = b.id)
                 warned == CountIf(validation.warnings,
                                   LAMBDA w : IsLowInterval(w) /\ w.block = b.id)
             IN IF b.type = "batching"
                THEN /\ conflicts = (IF min_batch > max_batch THEN 1 ELSE 0)
                     /\ warned = (IF interval < 50 THEN 1 ELSE 0)
                     /\ min_batch > max_batch =>
                           CountIf(validation.conflicts,
                                   LAMBDA c : c = MinMaxMsg(b.id, min_batch, max_batch)) = 1
                ELSE conflicts = 0 /\ warned = 0
        /\ (/\ Len(validation.conflicts) = 0
            /\ \A k \in 1..Len(validation.warnings) : IsLowInterval(validation.warnings[k]))
              => validation.valid

\* A list whose only finding is the interval warning, and it is valid
C9_Witness ==
    /\ validation # None /\ validation.valid
    /\ Len(validation.warnings) = 1 /\ IsLowInterval(validation.warnings[1])
    /\ Len(validation.conflicts) = 0

(* C10.  The conflicts come in the order referential integrity, cycle,      *)
(* pro-rata/CLOB, Filter overlap, Batching; the warnings in the order      *)
(* duplicate type, Filter, Batching; and validate returns the same         *)
(* conflicts and warnings for the same list whatever order the interpreter *)
(* iterates its sets in.                                                   *)
ConflictRank(c) ==
    IF IsNonExistent(c) THEN 1
    ELSE IF c = CycleMsg THEN 2
    ELSE IF c = ProRataClobMsg THEN 3
    ELSE IF IsOverlap(c) THEN 4
    ELSE IF IsMinMax(c) THEN 5 ELSE 0
WarningRank(w) ==
    IF w.kind = MultipleMsg("", 0).kind THEN 1
    ELSE IF w.kind = BothListsMsg("").kind THEN 2
    ELSE IF IsLowInterval(w) THEN 3 ELSE 0

InCheckOrder(v) ==
    /\ \A i, j \in 1..Len(v.conflicts) :
          /\ ConflictRank(v.conflicts[i]) > 0
          /\ i < j => ConflictRank(v.conflicts[i]) <= ConflictRank(v.conflicts[j])
    /\ \A i, j \in 1..Len(v.warnings) :
          /\ WarningRank(v.warnings[i]) > 0
          /\ i < j => WarningRank(v.warnings[i]) <= WarningRank(v.warnings[j])

\* The part of C10 about the order of the messages alone
C10_CheckOrder == (validation # None /\ Len(blocks) > 0) => InCheckOrder(validation)

C10_ReproducibleOutput ==
    (validation # None /\ Len(blocks) > 0) =>
        /\ InCheckOrder(validation)
        /\ \A h \in HashSeeds :
              /\ validate(blocks, h).conflicts = validation.conflicts
              /\ validate(blocks, h).warnings = validation.warnings

----------------------------------------------------------------------------
(* Vocabulary of the simulation properties *)

HasType(bs, t) == \E k \in 1..Len(bs) : bs[k].type = t
FirstOfType(bs, t) == bs[Min({k \in 1..Len(bs) : bs[k].type = t})]

\* The method of the first Ordering block, FIFO when it names none
FirstMethod(bs) == Get(FirstOfType(bs, "ordering").params, "method", "FIFO")

\* Results of the transactions that were not filtered
Passed == {i \in 1..Len(report.results) : report.results[i].outcome # "filtered"}

(* C11.  When validate reports the list invalid, simulate returns           *)
(* results = [], total_txs = the requested sample_txs, processed = 0,      *)
(* filtered = 0 and the validator's conflicts in the validator's order,    *)
(* and generates no sample.                                                *)
C11_InvalidShortCircuit ==
    (report # None /\ ~validation.valid) =>
        /\ report = [results |-> <<>>, total_txs |-> requested[1], processed |-> 0,
                     filtered |-> 0, conflicts |-> validation.conflicts]
        /\ sample_txs = None

\* simulate refused a list with two conflicts when two transactions were asked for
C11_Witness ==
    /\ report # None /\ ~validation.valid /\ sample_txs = None
    /\ requested = Some(2) /\ report.total_txs = 2
    /\ Len(report.conflicts) >= 2 /\ report.conflicts[1] # report.conflicts[2]

(* C12.  As claimed: when the first Ordering block's method is FIFO or      *)
(* pro_rata, every transaction that is not filtered has its 1-based index  *)
(* in generation order as position, whatever sample was drawn; with no     *)
(* Filter and no Batching block the positions are 1..N and every outcome   *)
(* is "included".                                                          *)
C12_GenerationIndex ==
    (SimRan /\ HasType(blocks, "ordering")
            /\ FirstMethod(blocks) \in {"FIFO", "pro_rata"}) =>
        /\ \A i \in Passed : report.results[i].position = Some(i)
        /\ (~HasType(blocks, "filter") /\ ~HasType(blocks, "batching")) =>
              \A i \in 1..Len(sample_txs) :
                  /\ report.results[i].position = Some(i)
                  /\ report.results[i].outcome = "included"

\* What the code does instead: the position is the index of the first sample
\* transaction equal to this one, which is its own index when no earlier
\* transaction has the same five field values.
C12_FirstEqualIndex ==
    (SimRan /\ HasType(blocks, "ordering")
            /\ FirstMethod(blocks) \in {"FIFO", "pro_rata"}) =>
        \A i \in Passed :
            report.results[i].position
                = Some(Min({j \in 1..i : sample_txs[j] = sample_txs[i]}))

C14_BatchId ==
    SimRan =>
        \A i \in Passed :
            LET r == report.results[i]
                p == IF r.position # None THEN r.position[1] ELSE i
                max_batch == Get(FirstOfType(blocks, "batching").params,
                                 "max_batch", DefaultMaxBatch)
            IN IF HasType(blocks, "batching")
               THEN /\ r.outcome = "batched"
                    /\ r.batch_id = Some(((p - 1) \div max_batch) + 1)
               ELSE r.outcome = "included" /\ r.batch_id = None

\* What the code does instead: without a position, p is the index of the
\* first sample transaction equal to this one.
C14_BatchIdFirstEqual ==
    SimRan =>
        \A i \in Passed :
            LET r == report.results[i]
                p == IF r.position # None THEN r.position[1]
                     ELSE Min({j \in 1..i : sample_txs[j] = sample_txs[i]})
                max_batch == Get(FirstOfType(blocks, "batching").params,
                                 "max_batch", DefaultMaxBatch)
            IN IF HasType(blocks, "batching")
               THEN /\ r.outcome = "batched"
                    /\ r.batch_id = Some(((p - 1) \div max_batch) + 1)
               ELSE r.outcome = "included" /\ r.batch_id = None

\* The one Filter block of a list, its lists, and the size reasons
OneFilter == SimRan /\ Cardinality(FilterIdx(blocks)) = 1
TheFilter == blocks[Min(FilterIdx(blocks))]
Whitelist == Get(TheFilter.params, "whitelist", <<>>)
Blacklist == Get(TheFilter.params, "blacklist", <<>>)
IsSizeReason(reason) ==
    reason # None /\ reason[1].kind \in {ExceedsMax(0, 0).kind, BelowMin(0, 0).kind}

(* C15.  With exactly one Filter block the conditions are taken in the      *)
(* order whitelist, blacklist, max_size, min_size and the first that       *)
(* matches gives the reason: a sender outside a non-empty whitelist is     *)
(* filtered as "Not in whitelist" whatever the amount; a sender that       *)
(* passed the whitelist check and is in a non-empty blacklist is filtered  *)
(* as "In blacklist" before any size check; a size reason is given only    *)
(* when neither list matched, the max_size reason before the min_size one. *)
C15_ConditionOrder ==
    OneFilter =>
        \A i \in 1..Len(sample_txs) :
            LET tx == sample_txs[i]
                r == report.results[i]
                offWhitelist == Len(Whitelist) > 0 /\ ~InList(tx.sender, Whitelist)
                onBlacklist == Len(Blacklist) > 0 /\ InList(tx.sender, Blacklist)
            IN /\ offWhitelist =>
                     r.outcome = "filtered" /\ r.reason = Some(NotInWhitelist)
               /\ (~offWhitelist /\ onBlacklist) =>
                     r.outcome = "filtered" /\ r.reason = Some(InBlacklist)
               /\ (~offWhitelist /\ ~onBlacklist /\ r.outcome = "filtered") =>
                     /\ IsSizeReason(r.reason)
                     /\ r.reason[1].kind = BelowMin(0, 0).kind =>
                           ~(/\ "max_size" \in DOMAIN TheFilter.params
                             /\ TheFilter.params["max_size"] # 0
                             /\ tx.amount > TheFilter.params["max_size"])

\* A sender outside the whitelist whose amount also exceeds max_size, and in
\* the same sample a transaction that only the size check filters
C15_Witness ==
    /\ OneFilter /\ Len(Whitelist) > 0 /\ "max_size" \in DOMAIN TheFilter.params
    /\ \E i, j \in 1..Len(sample_txs) :
          /\ ~InList(sample_txs[i].sender, Whitelist)
          /\ sample_txs[i].amount > TheFilter.params["max_size"]
          /\ report.results[i].reason = Some(NotInWhitelist)
          /\ InList(sample_txs[j].sender, Whitelist)
          /\ IsSizeReason(report.results[j].reason)

(* C16.  As claimed: with one Filter block whose lists are empty, for every *)
(* value of max_size that is present, 0 included, an amount above it is    *)
(* filtered with a size reason, likewise an amount below a present         *)
(* min_size; a limit is ignored only when it is absent.                    *)
C16_SizeLimits ==
    (OneFilter /\ Len(Whitelist) = 0 /\ Len(Blacklist) = 0) =>
        \A i \in 1..Len(sample_txs) :
            LET tx == sample_txs[i]
                r == report.results[i]
                p == TheFilter.params
                above == "max_size" \in DOMAIN p /\ tx.amount > p["max_size"]
                below == "min_size" \in DOMAIN p /\ tx.amount < p["min_size"]
            IN /\ (above \/ below) => r.outcome = "filtered" /\ IsSizeReason(r.reason)
               /\ ~(above \/ below) => r.outcome # "filtered"

\* What the code does instead: a limit of 0 is ignored like an absent one.
C16_NonZeroLimits ==
    (OneFilter /\ Len(Whitelist) = 0 /\ Len(Blacklist) = 0) =>
        \A i \in 1..Len(sample_txs) :
            LET tx == sample_txs[i]
                r == report.results[i]
                p == TheFilter.params
                above == /\ "max_size" \in DOMAIN p /\ p["max_size"] # 0
                         /\ tx.amount > p["max_size"]
                below == /\ "min_size" \in DOMAIN p /\ p["min_size"] # 0
                         /\ tx.amount < p["min_size"]
            IN /\ (above \/ below) => r.outcome = "filtered" /\ IsSizeReason(r.reason)
               /\ ~(above \/ below) => r.outcome # "filtered"

(* C17.  In every report a filtered result has no position, no batch_id    *)
(* and a reason, also when the list has Ordering and Batching blocks; and  *)
(* only a filtered result has a reason.                                    *)
C17_FilteredSkipsStages ==
    report # None =>
        \A i \in 1..Len(report.results) :
            LET r == report.results[i]
            IN /\ r.outcome = "filtered" =>
                     r.position = None /\ r.batch_id = None /\ r.reason # None
               /\ r.reason # None => r.outcome = "filtered"

\* A filtered and a batched result in one report of a list with Filter,
\* Ordering and Batching blocks
C17_Witness ==
    /\ SimRan /\ HasType(blocks, "filter") /\ HasType(blocks, "ordering")
    /\ HasType(blocks, "batching")
    /\ \E i, j \in 1..Len(report.results) :
          /\ report.results[i].outcome = "filtered"
          /\ report.results[i].position = None
          /\ report.results[j].outcome = "batched"
          /\ report.results[j].position # None

(* C18.  A report on a valid list has one result per sampled transaction,  *)
(* in generation order; filtered counts the filtered results, processed    *)
(* the others; processed + filtered = total_txs = the requested            *)
(* sample_txs; conflicts is empty.                                         *)
C18_ReportCounts ==
    SimRan =>
        /\ Len(report.results) = requested[1] /\ Len(sample_txs) = requested[1]
        /\ \A i \in 1..Len(sample_txs) : report.results[i].tx_id = sample_txs[i].tx_id
        /\ report.filtered
              = CountIf(report.results, LAMBDA r : r.outcome = "filtered")
        /\ report.processed
              = CountIf(report.results, LAMBDA r : r.outcome # "filtered")
        /\ report.processed = requested[1] - report.filtered
        /\ report.processed + report.filtered = report.total_txs
        /\ report.total_txs = requested[1]
        /\ report.conflicts = <<>>

\* Two transactions with different ids, the first filtered, the second not
C18_Witness ==
    /\ SimRan /\ requested = Some(2)
    /\ sample_txs[1].tx_id # sample_txs[2].tx_id
    /\ report.results[1].outcome = "filtered" /\ report.results[2].outcome # "filtered"
    /\ report.filtered = 1 /\ report.processed = 1

(* C19.  As claimed: validate and simulate never raise; every call on a    *)
(* well-typed block list completes and returns a report.                   *)
C19_NeverRaises == raised = None

\* What holds instead: a call raises only when the has_cycle recursion is
\* nested deeper than the interpreter allows, which takes a path of more
\* than RecursionLimit connected blocks.
C19_RaisesOnlyOnDeepChains ==
    raised # None =>
        /\ raised = Some(RecursionError)
        /\ Len(blocks) > RecursionLimit
        /\ validation = None /\ report = None

Outcomes == {report.results[i].outcome : i \in 1..Len(report.results)}

(* C23.  Every result of a simulation has outcome "included", "filtered"   *)
(* or "batched"; "rejected", which the result model allows, is never       *)
(* produced.                                                               *)
C23_Outcomes ==
    report # None =>
        /\ Outcomes \subseteq {"included", "filtered", "batched"}
        /\ "rejected" \notin Outcomes

\* A sample on which all three outcomes can be told apart: one transaction
\* filtered, one not, in a list with a Batching block
C23_Witness ==
    /\ SimRan
    /\ HasType(blocks, "batching")
    /\ Outcomes = {"filtered", "batched"}

\* The Ordering blocks of a list, and the list without the Ordering blocks
\* after the first
OrderingIdx(bs) == {k \in 1..Len(bs) : bs[k].type = "ordering"}
FirstOrderingOnly(bs) ==
    LET keep == {k \in 1..Len(bs) : k \notin OrderingIdx(bs) \/ k = Min(OrderingIdx(bs))}
    IN [n \in 1..Cardinality(keep) |->
           bs[CHOOSE k \in keep : Cardinality({j \in keep : j < k}) = n - 1]]

\* The position the method of Ordering block b gives the i-th transaction of
\* the sample
PositionBy(b, i) ==
    LET method == Get(b.params, "method", "FIFO")
        tx == sample_txs[i]
    IN IF method \in {"FIFO", "pro_rata"} THEN Some(IndexOf(sample_txs, tx))
       ELSE IF method = "price_time" THEN Some(IndexOf(SortedByFee(sample_txs), tx))
       ELSE None

(* C24.  Only the first Ordering block determines positions: every result  *)
(* that is not filtered has the position the first Ordering block's method *)
(* gives it, whatever Ordering blocks follow, and the whole report is the  *)
(* one of the list without the later Ordering blocks.  With no Ordering    *)
(* block every position is unset, also for batched results.                *)
C24_FirstOrderingBlock ==
    SimRan =>
        IF HasType(blocks, "ordering")
        THEN /\ \A i \in Passed :
                   report.results[i].position
                       = PositionBy(FirstOfType(blocks, "ordering"), i)
             /\ report = RunPipeline(FirstOrderingOnly(blocks), sample_txs)
        ELSE \A i \in 1..Len(report.results) : report.results[i].position = None

\* Two Ordering blocks whose methods place some transaction differently
C24_Witness ==
    /\ SimRan
    /\ Cardinality(OrderingIdx(blocks)) = 2
    /\ \E i \in Passed :
          PositionBy(blocks[Min(OrderingIdx(blocks))], i)
              # PositionBy(blocks[Max(OrderingIdx(blocks))], i)

(* C25.  validate never reports a cycle that is not there: on a list with  *)
(* unique ids whose connection graph has no directed cycle (a diamond and  *)
(* connections to ids that do not exist included) cycle_detected is false  *)
(* and the cycle conflict is absent, in whatever order the ids are         *)
(* scanned.                                                                *)
C25_NoFalseCycle ==
    (ValidateReturned /\ UniqueIds(blocks) /\ ~HasDirectedCycle(blocks)) =>
        /\ ~validation.cycle_detected
        /\ ~InList(CycleMsg, validation.conflicts)
        /\ \A order \in AllOrders(BlockIds(blocks)) :
              ~CycleScan(blocks, order).cycle_detected

\* An acyclic graph in which a block is reached along two paths, and one
\* with a connection to an id that does not exist
C25_Witness ==
    /\ ValidateReturned /\ UniqueIds(blocks) /\ ~HasDirectedCycle(blocks)
    /\ \E k \in 1..Len(blocks) :
          Cardinality({j \in 1..Len(blocks) :
                         InList(blocks[k].id, blocks[j].connections)}) >= 2
    /\ \E tgt \in Targets(blocks) : tgt \notin BlockIds(blocks)

\* The results of a report that carry batch id b
InBatch(b) == {i \in 1..Len(report.results) : report.results[i].batch_id = Some(b)}
FirstMaxBatch == Get(FirstOfType(blocks, "batching").params, "max_batch", DefaultMaxBatch)

(* C26.  As claimed: with a Batching block no batch_id is shared by more   *)
(* than max_batch results, max_batch that of the first Batching block      *)
(* (default 50), for each ordering method and with or without filtered     *)
(* transactions in the sample.                                             *)
C26_BatchSize ==
    (SimRan /\ HasType(blocks, "batching")) =>
        \A b \in 1..Len(report.results) : Cardinality(InBatch(b)) <= FirstMaxBatch

\* What the code guarantees: the bound holds among transactions no two of
\* which are equal in every field.
C26_BatchSizeDistinct ==
    (SimRan /\ HasType(blocks, "batching")
       /\ \A i, j \in 1..Len(sample_txs) : sample_txs[i] = sample_txs[j] => i = j) =>
        \A b \in 1..Len(report.results) : Cardinality(InBatch(b)) <= FirstMaxBatch


\* A step in which validate, simulate or export_rules is called and returns
CallServed == Idle /\ ~Idle'

(* C21.  validate, simulate and export_rules hold no state between          *)
(* invocations: each leaves saved_rules and the caller's block list as     *)
(* they were, and the result of validate, of simulate given the sample it  *)
(* drew, and of export given its time, is the one the request's block list *)
(* determines, whatever validate, simulate, export and save calls, on this *)
(* or other lists, came before it.                                         *)
C21_Stateless ==
    /\ [][CallServed => (saved_rules' = saved_rules /\ blocks' = blocks)]_vars
    /\ [](validation # None => validation = validate(blocks, hashseed))
    /\ [](SimRan => report = RunPipeline(blocks, sample_txs))
    /\ []((report # None /\ sample_txs = None) =>
             report = InvalidReport(validate(blocks, hashseed), requested[1]))
    /\ [](exported # None => \E now \in Times :
                                exported = export_rules(blocks, "json", now))

\* A simulation served while the store holds two rule sets saved from lists
\* other than the request's
C21_Witness ==
    /\ SimRan
    /\ DOMAIN saved_rules = RuleIds
    /\ \A id \in RuleIds :
          saved_rules[id].blocks # [i \in 1..Len(blocks) |-> model_dump(blocks[i])]


(* C22.  As claimed: concurrent simulate invocations share no mutable       *)
(* state; each draws its sample from a random source of its own, so the    *)
(* numbers an invocation draws are those its source gives from the state   *)
(* the process started in, however the invocations are ordered.            *)
C22_OwnRandomSource ==
    \A c \in DOMAIN drawn : drawn[c] = Draws(rng0, Len(drawn[c]))

\* What the code does: the calls draw consecutive stretches of the one
\* generator's stream, so the generator has advanced by all draws together.
C22_SharedGenerator ==
    LET total == IF DOMAIN drawn = {} THEN 0
                 ELSE IF DOMAIN drawn = SimCalls THEN Len(drawn[1]) + Len(drawn[2])
                 ELSE Len(drawn[CHOOSE c \in DOMAIN drawn : TRUE])
    IN /\ rng = RngAfter(rng0, total)
       /\ \E c \in SimCalls :
             \/ c \notin DOMAIN drawn
             \/ DOMAIN drawn = {c}
             \/ \E d \in SimCalls \ {c} :
                   drawn[c] \o drawn[d] = Draws(rng0, total)


\* The daily limit check_rate_limit applies to a caller: that of the key's
\* tier in the in-memory table, free tier without a key or for a key not in
\* the table
LimitOf(caller) == TIER_LIMITS[get_tier_info(caller)]

(* C27.  As claimed: the daily simulation limit is enforced for every       *)
(* caller of POST /simulate: a caller on a limited tier, a caller without  *)
(* a key and a caller with a key that is not in the in-memory table (free  *)
(* tier, limit 3) included, is served at most `limit` simulate calls a     *)
(* day, and a call beyond that is refused with 429.                        *)
C27_DailyLimit ==
    \A caller \in Callers :
        LimitOf(caller) # -1 => served[caller] <= LimitOf(caller)

\* What the code enforces: the limit of callers without a key and of callers
\* whose key is in the in-memory table, for whom increment_usage counts
\* under the key check_rate_limit reads.
C27_LimitOfKnownCallers ==
    \A caller \in Callers :
        (LimitOf(caller) # -1 /\ (caller = NoKey \/ caller \in DOMAIN api_keys)) =>
            /\ served[caller] <= LimitOf(caller)
            /\ served[caller] = LimitOf(caller) => ~check_rate_limit(caller)[1]

(* C28.  As claimed: whenever verify_api_key accepts a key with tier T,     *)
(* from the cache, the database or the in-memory table, get_tier_info      *)
(* reports T for it in the same request, and the request is served exactly *)
(* when T has the feature: save from basic, Anchor export and deployment   *)
(* simulation from pro, also after a restart emptied the in-memory table.  *)
C28_VerifiedTierGates ==
    (response # None /\ response[1].verified # None) =>
        /\ response[1].tier = response[1].verified
        /\ response[1].status = 200
               <=> RouteAllows(response[1].route, response[1].verified[1])

\* What the code does: the gate follows the verified tier for keys that are
\* in the in-memory table, and takes every other verified key for free tier.
C28_InMemoryTierGates ==
    (response # None /\ response[1].verified # None) =>
        /\ response[1].key \in DOMAIN api_keys
               => response[1].tier = response[1].verified
        /\ response[1].key \notin DOMAIN api_keys => response[1].tier = Some("free")
        /\ response[1].status = 200
               <=> RouteAllows(response[1].route, response[1].tier[1])


\* The calls of check_ip_lock that returned True
Admitted == {c \in DOMAIN ipcalls : ipcalls[c].returned = Some(TRUE)}

(* C29.  As claimed: check_ip_lock locks a key to the IP of its first use   *)
(* and refuses every other IP while the lock is held: with the cache       *)
(* connected, however concurrent calls for the key interleave within the   *)
(* lock's lifetime, all calls that return True carry the same client IP.   *)
C29_OneIpPerLock ==
    \A c, d \in Admitted : ipcalls[c].client_ip = ipcalls[d].client_ip

\* What the code guarantees: a call that found the key locked returns True
\* exactly for the IP it read, and a call that found no lock returns True.
C29_FollowsTheLockRead ==
    \A c \in DOMAIN ipcalls :
        /\ ipcalls[c].locked_ip # None =>
              ipcalls[c].returned = Some(ipcalls[c].locked_ip = Some(ipcalls[c].client_ip))
        /\ ipcalls[c].locked_ip = None => ipcalls[c].returned \in {None, Some(TRUE)}

\* The response statuses after which request() returns at once
Final(r) ==
    r.kind = "response" /\ (r.status < 400 \/ r.status \in {400, 401, 403, 404})

(* C30.  As claimed: request() with max_retries >= 1 makes at most          *)
(* max_retries attempts and none after a response with status below 400   *)
(* or in {400, 401, 403, 404}; when the attempts are used up its outcome   *)
(* is that of the final attempt: the final attempt's response is returned  *)
(* if it got one (429 or 5xx), and an exception is raised only if the      *)
(* final attempt failed with a timeout or connection error.                *)
C30_FinalAttemptDecides ==
    /\ Len(attempts) <= max_retries
    /\ \A i \in 1..(Len(attempts) - 1) : ~Final(attempts[i])
    /\ (outcome # None /\ Len(attempts) = max_retries) =>
          outcome = Some(attempts[Len(attempts)])

\* What the code does: once any attempt has failed with a timeout or a
\* connection error, using up the attempts raises the latest such exception,
\* whatever the final attempt got.
C30_LatestExceptionDecides ==
    /\ Len(attempts) <= max_retries
    /\ \A i \in 1..(Len(attempts) - 1) : ~Final(attempts[i])
    /\ (outcome # None /\ Len(attempts) = max_retries) =>
          LET failed == {i \in 1..Len(attempts) : attempts[i].kind # "response"}
          IN IF failed = {} \/ Final(attempts[Len(attempts)])
                \/ (attempts[Len(attempts)].kind = "response"
                      /\ ~Retried(attempts[Len(attempts)].status))
             THEN outcome = Some(attempts[Len(attempts)])
             ELSE outcome = Some(attempts[Max(failed)])

====
